---------------------------- MODULE Spec2Model ----------------------------
(***************************************************************************)
(* A model of the LoomVM execution engine (loom-vm/src/vm.rs), its value   *)
(* and bytecode model (bytecode.rs), the heap manager (memory/mod.rs) and  *)
(* the native registry (runtime.rs).                                       *)
(*                                                                         *)
(* The Rust call stack of execute_function / execute_instructions is the   *)
(* variable ctl: one activation per running execute_instructions loop,     *)
(* holding the loop index i and the loop's local `result`.  The engine's   *)
(* own fields keep their names (stack, locals, globals, call_stack, ip,    *)
(* current_function, memory.objects, memory.arrays, ...).                  *)
(***************************************************************************)
EXTENDS Integers, Sequences, FiniteSets, TLC

(***************************************************************************)
(* Bounds of the model.                                                    *)
(***************************************************************************)
\* Width in bits of the model's Integer.  The engine's Integer is i64; the
\* model keeps two's-complement arithmetic at a width TLC can enumerate.
IntBits == 7
\* Largest magnitude of the small Integer operands of the arithmetic family.
MaxOperand == 3
\* Longest generated function body of the control-flow families.
MaxBody == 3
\* Longest generated body of a called function.
MaxCallee == 3
\* Deepest nesting of execute_function activations the model follows.
MaxDepth == 3
\* Most allocations of one store, most retentions of one entry and most calls
\* of the memory manager that its clients make.
MaxAlloc == 2
MaxRefs == 2
MaxCalls == 6
\* Largest size of an array the heap families allocate.
MaxArray == 2

IntMin == -(2 ^ (IntBits - 1))
IntMax == (2 ^ (IntBits - 1)) - 1
IntRange == IntMin .. IntMax

(***************************************************************************)
(* bytecode.rs: Value.  The payload is v for the numbers and the IDs, b    *)
(* for a Boolean and s for a String.  A Float carries its value in halves  *)
(* (v = 3 is 1.5), so that fractions and the truncating `as i64` cast are  *)
(* modelled.  A String carries a sequence of one-character strings.        *)
(***************************************************************************)
ValueInt(i) == [t |-> "Int", v |-> i]
ValueFloat(h) == [t |-> "Float", v |-> h]
ValueBool(b) == [t |-> "Bool", b |-> b]
ValueString(s) == [t |-> "String", s |-> s]
ValueNull == [t |-> "Null", v |-> 0]
ValueObject(id) == [t |-> "Object", v |-> id]
ValueFunction(id) == [t |-> "Function", v |-> id]
ValueArray(id) == [t |-> "Array", v |-> id]

\* Value::is_truthy
is_truthy(val) ==
    CASE val.t = "Bool" -> val.b
      [] val.t = "Int" -> val.v # 0
      [] val.t = "Float" -> val.v # 0
      [] val.t = "String" -> val.s # << >>
      [] val.t = "Null" -> FALSE
      [] val.t = "Object" -> TRUE
      [] val.t = "Function" -> TRUE
      [] val.t = "Array" -> TRUE

(***************************************************************************)
(* bytecode.rs: Instruction.  An instruction is a record with its opcode   *)
(* in op and the variant's payload under a field named for its kind.       *)
(***************************************************************************)
Op(name) == [op |-> name]
PUSH(val) == [op |-> "PUSH", value |-> val]
LOAD_VAR(name) == [op |-> "LOAD_VAR", name |-> name]
STORE_VAR(name) == [op |-> "STORE_VAR", name |-> name]
LOAD_CONST(index) == [op |-> "LOAD_CONST", index |-> index]
JMP(offset) == [op |-> "JMP", offset |-> offset]
JMP_IF(offset) == [op |-> "JMP_IF", offset |-> offset]
JMP_IF_FALSE(offset) == [op |-> "JMP_IF_FALSE", offset |-> offset]
CALL(name) == [op |-> "CALL", name |-> name]
CALL_NATIVE(name) == [op |-> "CALL_NATIVE", name |-> name]
\* Instruction::NEW (NEW is a reserved word of TLA+)
NEW_OBJ(class_name) == [op |-> "NEW", name |-> class_name]
GET_FIELD(name) == [op |-> "GET_FIELD", name |-> name]
SET_FIELD(name) == [op |-> "SET_FIELD", name |-> name]
GET_METHOD(name) == [op |-> "GET_METHOD", name |-> name]
NEW_ARRAY(size) == [op |-> "NEW_ARRAY", size |-> size]
CAST(name) == [op |-> "CAST", name |-> name]
IS_TYPE(name) == [op |-> "IS_TYPE", name |-> name]
ALLOC(size) == [op |-> "ALLOC", size |-> size]

(***************************************************************************)
(* error.rs: VmError.  kind is the variant; off is the offset of an        *)
(* InvalidInstruction (-1 otherwise) and name the detail string of the     *)
(* name resolution failures, as the sequence of the pieces format! joins   *)
(* (<<name>>, or <<"native:", name>>; empty otherwise).                    *)
(***************************************************************************)
VmError(kind) == [kind |-> kind, off |-> -1, name |-> << >>]
VmErrorNamed(kind, name) == [kind |-> kind, off |-> -1, name |-> <<name>>]
\* InvalidInstruction that reports the offset of the body's first instruction
InvalidInstruction_at_entry(off) ==
    [kind |-> "InvalidInstruction", off |-> 0, name |-> << >>]
InvalidInstruction(off) == [kind |-> "InvalidInstruction", off |-> off, name |-> << >>]
\* VmError::UndefinedFunction(format!("native:{}", name))
UndefinedNative(name) ==
    [kind |-> "UndefinedFunction", off |-> -1, name |-> <<"native:", name>>]
VmErrorKinds ==
    {"Io", "InvalidBytecode", "Runtime", "TypeError", "MemoryError",
     "StackOverflow", "StackUnderflow", "UndefinedVariable", "UndefinedFunction",
     "DivisionByZero", "InvalidInstruction", "Serialization", "Deserialization"}

\* Result<Value, VmError>, and the abort of the process by a Rust panic.
Ok(val) == [k |-> "Ok", value |-> val]
Err(e) == [k |-> "Err", err |-> e]
Panic == [k |-> "Panic"]

(***************************************************************************)
(* i64 arithmetic as the closures of Instruction::ADD .. MOD compute it.   *)
(* `a + b`, `a - b`, `a * b` and unary `-` panic on overflow when the      *)
(* build checks overflow and wrap when it does not: both outcomes are      *)
(* kept.  `/` and `%` truncate toward zero and panic on MIN / -1 in every  *)
(* build.                                                                  *)
(***************************************************************************)
wrapping(x) == ((x - IntMin) % (2 ^ IntBits)) + IntMin
checked(x) == IF x \in IntRange THEN {Ok(x)} ELSE {Panic, Ok(wrapping(x))}
Abs(x) == IF x < 0 THEN -x ELSE x
Sgn(x) == IF x < 0 THEN -1 ELSE IF x > 0 THEN 1 ELSE 0
\* Rust's integer `/`: the quotient rounded toward zero.
TruncDiv(a, b) == Sgn(a) * Sgn(b) * (Abs(a) \div Abs(b))
\* Rust's integer `%`: the remainder, with the sign of the dividend.
TruncRem(a, b) == a - b * TruncDiv(a, b)

op_add(a, b) == checked(a + b)
op_sub(a, b) == checked(a - b)
op_mul(a, b) == checked(a * b)
op_div_unguarded(a, b) ==
    IF b = 0 THEN {Panic}
    ELSE IF a = IntMin /\ b = -1 THEN {Panic}
    ELSE {Ok(TruncDiv(a, b))}
op_div(a, b) ==
    IF b = 0 THEN {Err(VmError("DivisionByZero"))}
    ELSE IF a = IntMin /\ b = -1 THEN {Panic}
    ELSE {Ok(TruncDiv(a, b))}
op_mod(a, b) ==
    IF b = 0 THEN {Err(VmError("DivisionByZero"))}
    ELSE IF a = IntMin /\ b = -1 THEN {Panic}
    ELSE {Ok(TruncRem(a, b))}
ArithOps == {"ADD", "SUB", "MUL", "DIV", "MOD"}
arith_closure(opname, a, b) ==
    CASE opname = "ADD" -> op_add(a, b)
      [] opname = "SUB" -> op_sub(a, b)
      [] opname = "MUL" -> op_mul(a, b)
      [] opname = "DIV" -> op_div(a, b)
      [] opname = "MOD" -> op_mod(a, b)

\* `f as i64`: truncation toward zero, saturating at the ends of i64.
as_i64(h) ==
    LET q == TruncDiv(h, 2)
    IN  IF q < IntMin THEN IntMin ELSE IF q > IntMax THEN IntMax ELSE q
\* `i as f64`
as_f64(i) == 2 * i

(***************************************************************************)
(* HashMap<String, Value> and Vec<Value>.                                  *)
(***************************************************************************)
EmptyMap == [x \in {} |-> ValueNull]
\* HashMap::insert into a map that is cleared first: the key is alone in it
MapInsert_cleared(map, key, val) == [x \in {key} |-> val]
\* HashMap::insert
MapInsert(map, key, val) ==
    [x \in (DOMAIN map) \cup {key} |-> IF x = key THEN val ELSE map[x]]
Last(s) == s[Len(s)]
Front(s) == SubSeq(s, 1, Len(s) - 1)
Repeat(val, n) == [x \in 1 .. n |-> val]

(***************************************************************************)
(* The part of LoomVM that execute_instruction reads and writes, as a      *)
(* record m: stack, locals, globals, ip, and the memory manager's objects, *)
(* arrays, next_object_id and next_array_id.  An operator that models a    *)
(* method of LoomVM takes m and yields the set of its possible outcomes    *)
(* [m |-> the fields afterwards, r |-> what it returned].                  *)
(***************************************************************************)
Out(m, r) == [m |-> m, r |-> r]
WithStack(m, s) == [m EXCEPT !.stack = s]
\* self.stack.pop().ok_or(VmError::StackUnderflow)? on an empty stack
Underflow(m) == {Out(m, Err(VmError("StackUnderflow")))}
\* self.stack.push(v.clone()); Ok(v)
PushOk(m, s, val) == {Out(WithStack(m, Append(s, val)), Ok(val))}

(***************************************************************************)
(* memory/profiler.rs: the counters of MemoryProfiler that the memory      *)
(* manager's calls change.  allocations and deallocations, the lists of    *)
(* the events with their timestamps, are kept as their lengths.            *)
(***************************************************************************)
\* MemoryProfiler::new
MemoryProfiler_new ==
    [allocations |-> 0, deallocations |-> 0, total_allocations |-> 0,
     total_deallocations |-> 0, allocation_types |-> [x \in {} |-> 0],
     enabled |-> TRUE]
\* MemoryProfiler::record_allocation
record_allocation(p, id, allocation_type) ==
    IF ~p.enabled THEN p
    ELSE [p EXCEPT
            !.allocations = @ + 1,
            !.allocation_types =
               [x \in (DOMAIN @) \cup {allocation_type} |->
                  (IF x \in DOMAIN @ THEN @[x] ELSE 0)
                    + (IF x = allocation_type THEN 1 ELSE 0)],
            !.total_allocations = @ + 1]
\* record_deallocation that pushes the event and leaves the total alone
record_deallocation_uncounted(p, id, deallocation_type) ==
    IF ~p.enabled THEN p ELSE [p EXCEPT !.deallocations = @ + 1]
\* MemoryProfiler::record_deallocation
record_deallocation(p, id, deallocation_type) ==
    IF ~p.enabled THEN p
    ELSE [p EXCEPT !.deallocations = @ + 1, !.total_deallocations = @ + 1]
\* MemoryProfiler::get_stats, the two totals of MemoryStats
get_stats(p) ==
    [total_allocations |-> p.total_allocations,
     total_deallocations |-> p.total_deallocations]

\* allocate_object that hands out the lowest ID without an entry, the ID of a
\* released object included
allocate_object_lowest_free(m, class_name) ==
    LET id == CHOOSE i \in 1 .. m.next_object_id :
                /\ i \notin DOMAIN m.objects
                /\ \A j \in 1 .. i - 1 : j \in DOMAIN m.objects
        object == [id |-> id, class_name |-> class_name, fields |-> EmptyMap,
                   ref_count |-> 1]
    IN  [m |-> [m EXCEPT !.next_object_id = IF id = @ THEN id + 1 ELSE @,
                         !.objects = MapInsert(m.objects, id, object),
                         !.profiler = record_allocation(@, id, "object")],
         id |-> id]
\* memory/mod.rs: MemoryManager::allocate_object
allocate_object(m, class_name) ==
    LET id == m.next_object_id
        object == [id |-> id, class_name |-> class_name, fields |-> EmptyMap,
                   ref_count |-> 1]
    IN  [m |-> [m EXCEPT !.next_object_id = id + 1,
                         !.objects = MapInsert(m.objects, id, object),
                         !.profiler = record_allocation(@, id, "object")],
         id |-> id]
\* allocate_array with Vec::with_capacity(size) for vec![Value::Null; size]:
\* room for size elements, and none in the array.
allocate_array_with_capacity(m, element_type, size) ==
    LET id == m.next_array_id
        array == [id |-> id, element_type |-> element_type, elements |-> << >>,
                  ref_count |-> 1]
    IN  [m |-> [m EXCEPT !.next_array_id = id + 1,
                         !.arrays = MapInsert(m.arrays, id, array),
                         !.profiler = record_allocation(@, id, "array")],
         id |-> id]
\* memory/mod.rs: MemoryManager::allocate_array
allocate_array(m, element_type, size) ==
    LET id == m.next_array_id
        array == [id |-> id, element_type |-> element_type,
                  elements |-> Repeat(ValueNull, size), ref_count |-> 1]
    IN  [m |-> [m EXCEPT !.next_array_id = id + 1,
                         !.arrays = MapInsert(m.arrays, id, array),
                         !.profiler = record_allocation(@, id, "array")],
         id |-> id]
\* memory/mod.rs: MemoryManager::get_object / get_array: Some(entry) as {entry}
get_object(objects, id) == IF id \in DOMAIN objects THEN {objects[id]} ELSE {}
get_array(arrays, id) == IF id \in DOMAIN arrays THEN {arrays[id]} ELSE {}
\* update_object as an insert: the entry is stored whether or not its ID has
\* an entry
update_object_upsert(objects, object) ==
    [store |-> MapInsert(objects, object.id, object), r |-> Ok(ValueNull)]
\* memory/mod.rs: MemoryManager::update_object / update_array
update_object(objects, object) ==
    IF object.id \in DOMAIN objects
    THEN [store |-> MapInsert(objects, object.id, object), r |-> Ok(ValueNull)]
    ELSE [store |-> objects, r |-> Err(VmError("Runtime"))]
update_array(arrays, array) ==
    IF array.id \in DOMAIN arrays
    THEN [store |-> MapInsert(arrays, array.id, array), r |-> Ok(ValueNull)]
    ELSE [store |-> arrays, r |-> Err(VmError("Runtime"))]

\* HashMap::remove
MapRemove(map, key) == [x \in (DOMAIN map) \ {key} |-> map[x]]
\* memory/mod.rs: MemoryManager::increment_ref: the count of a present entry
\* goes up by one; an absent entry and a value that is no object or array
\* reference are left alone.
increment_ref(m, value) ==
    CASE value.t = "Object" /\ value.v \in DOMAIN m.objects ->
           [m EXCEPT !.objects[value.v].ref_count = @ + 1]
      [] value.t = "Array" /\ value.v \in DOMAIN m.arrays ->
           [m EXCEPT !.arrays[value.v].ref_count = @ + 1]
      [] OTHER -> m
\* memory/mod.rs: MemoryManager::decrement_ref: the count of a present entry
\* goes down by one and the entry is removed when it reaches zero.  Every
\* stored count is at least 1 here (allocation stores 1, and the clients write
\* back only what get returned), so the u32 subtraction does not underflow.
decrement_ref(m, value) ==
    CASE value.t = "Object" /\ value.v \in DOMAIN m.objects ->
           IF m.objects[value.v].ref_count - 1 = 0
           THEN [m EXCEPT !.objects = MapRemove(@, value.v),
                          !.profiler = record_deallocation(@, value.v, "object")]
           ELSE [m EXCEPT !.objects[value.v].ref_count = @ - 1]
      [] value.t = "Array" /\ value.v \in DOMAIN m.arrays ->
           IF m.arrays[value.v].ref_count - 1 = 0
           THEN [m EXCEPT !.arrays = MapRemove(@, value.v),
                          !.profiler = record_deallocation(@, value.v, "array")]
           ELSE [m EXCEPT !.arrays[value.v].ref_count = @ - 1]
      [] OTHER -> m

\* get_variable that searches the globals before the locals
get_variable_globals_first(m, name) ==
    IF name \in DOMAIN m.globals THEN Ok(m.globals[name])
    ELSE IF name \in DOMAIN m.locals THEN Ok(m.locals[name])
    ELSE Err(VmErrorNamed("UndefinedVariable", name))
\* LoomVM::get_variable
get_variable(m, name) ==
    IF name \in DOMAIN m.locals THEN Ok(m.locals[name])
    ELSE IF name \in DOMAIN m.globals THEN Ok(m.globals[name])
    ELSE Err(VmErrorNamed("UndefinedVariable", name))
\* set_variable that writes a name bound only in the globals into the globals
set_variable_promoting(m, name, val) ==
    IF name \notin DOMAIN m.locals /\ name \in DOMAIN m.globals
    THEN [m EXCEPT !.globals = MapInsert(m.globals, name, val)]
    ELSE [m EXCEPT !.locals = MapInsert(m.locals, name, val)]
\* LoomVM::set_variable
set_variable(m, name, val) == [m EXCEPT !.locals = MapInsert(m.locals, name, val)]

\* Two operands of which only the top one is popped: a stays on the stack
pop2_keeping_a(s) ==
    [b |-> s[Len(s)], a |-> s[Len(s) - 1], rest |-> SubSeq(s, 1, Len(s) - 1)]
\* The two pops that open execute_binary_op, execute_comparison and
\* execute_logical_op: b is the former top of stack, a the value below it.
pop2(s) ==
    [b |-> s[Len(s)], a |-> s[Len(s) - 1], rest |-> SubSeq(s, 1, Len(s) - 2)]

\* LoomVM::execute_binary_op, with the closure named by its instruction
execute_binary_op(m, opname) ==
    IF Len(m.stack) = 0 THEN Underflow(m)
    ELSE IF Len(m.stack) = 1 THEN Underflow(WithStack(m, << >>))
    ELSE
      LET p == pop2(m.stack)
          a == p.a
          b == p.b
          m2 == WithStack(m, p.rest)
          Finish(outs, isFloat) ==
              UNION {IF o.k = "Ok"
                     THEN PushOk(m2, p.rest,
                                 IF isFloat THEN ValueFloat(as_f64(o.value))
                                 ELSE ValueInt(o.value))
                     ELSE {Out(m2, o)} : o \in outs}
      IN  CASE a.t = "Int" /\ b.t = "Int" ->
                 Finish(arith_closure(opname, a.v, b.v), FALSE)
            [] a.t = "Float" /\ b.t = "Float" ->
                 Finish(arith_closure(opname, as_i64(a.v), as_i64(b.v)), TRUE)
            [] a.t = "Int" /\ b.t = "Float" ->
                 Finish(arith_closure(opname, a.v, as_i64(b.v)), TRUE)
            [] a.t = "Float" /\ b.t = "Int" ->
                 Finish(arith_closure(opname, as_i64(a.v), b.v), TRUE)
            [] OTHER -> {Out(m2, Err(VmError("TypeError")))}

CompareOps == {"EQ", "NE", "LT", "LE", "GT", "GE"}
compare_closure(opname, a, b) ==
    CASE opname = "EQ" -> a = b
      [] opname = "NE" -> a # b
      [] opname = "LT" -> a < b
      [] opname = "LE" -> a <= b
      [] opname = "GT" -> a > b
      [] opname = "GE" -> a >= b
\* LoomVM::execute_comparison
execute_comparison(m, opname) ==
    IF Len(m.stack) = 0 THEN Underflow(m)
    ELSE IF Len(m.stack) = 1 THEN Underflow(WithStack(m, << >>))
    ELSE
      LET p == pop2(m.stack)
          a == p.a
          b == p.b
          m2 == WithStack(m, p.rest)
      IN  CASE a.t = "Int" /\ b.t = "Int" ->
                 PushOk(m2, p.rest, ValueBool(compare_closure(opname, a.v, b.v)))
            [] a.t = "Float" /\ b.t = "Float" ->
                 PushOk(m2, p.rest,
                        ValueBool(compare_closure(opname, as_i64(a.v), as_i64(b.v))))
            [] a.t = "String" /\ b.t = "String" ->
                 PushOk(m2, p.rest,
                        ValueBool(compare_closure(opname, Len(a.s), Len(b.s))))
            [] OTHER -> {Out(m2, Err(VmError("TypeError")))}

LogicalOps == {"AND", "OR"}
\* LoomVM::execute_logical_op
execute_logical_op(m, opname) ==
    IF Len(m.stack) = 0 THEN Underflow(m)
    ELSE IF Len(m.stack) = 1 THEN Underflow(WithStack(m, << >>))
    ELSE
      LET p == pop2(m.stack)
          a == p.a
          b == p.b
          m2 == WithStack(m, p.rest)
      IN  IF a.t = "Bool" /\ b.t = "Bool"
          THEN PushOk(m2, p.rest,
                      ValueBool(IF opname = "AND" THEN a.b /\ b.b ELSE a.b \/ b.b))
          ELSE {Out(m2, Err(VmError("TypeError")))}

\* LoomVM::call_native_function: the names the engine itself dispatches
call_native_function(m, name) ==
    IF name \in {"print", "println"}
    THEN IF Len(m.stack) = 0 THEN Underflow(m)
         ELSE {Out(WithStack(m, Front(m.stack)), Ok(ValueNull))}
    ELSE {Out(m, Err(UndefinedNative(name)))}

\* get_object_field with a missing field read as Null
get_object_field_or_null(m, object_value, field_name) ==
    IF object_value.t = "Object" /\ get_object(m.objects, object_value.v) # {}
    THEN IF field_name \in DOMAIN m.objects[object_value.v].fields
         THEN Ok(m.objects[object_value.v].fields[field_name])
         ELSE Ok(ValueNull)
    ELSE Err(VmError("Runtime"))
\* LoomVM::get_object_field
get_object_field(m, object_value, field_name) ==
    IF /\ object_value.t = "Object"
       /\ get_object(m.objects, object_value.v) # {}
       /\ field_name \in DOMAIN m.objects[object_value.v].fields
    THEN Ok(m.objects[object_value.v].fields[field_name])
    ELSE Err(VmError("Runtime"))
\* set_object_field without its update_object: the field is inserted into the
\* clone that get_object returned and the clone is dropped.
set_object_field_on_clone(m, object_value, field_name, val) ==
    IF object_value.t = "Object" /\ get_object(m.objects, object_value.v) # {}
    THEN Out(m, Ok(ValueNull))
    ELSE Out(m, Err(VmError("Runtime")))
\* LoomVM::set_object_field: get_object, insert into the snapshot, update_object
set_object_field(m, object_value, field_name, val) ==
    IF object_value.t = "Object" /\ get_object(m.objects, object_value.v) # {}
    THEN LET snapshot == CHOOSE o \in get_object(m.objects, object_value.v) : TRUE
             object == [snapshot EXCEPT
                          !.fields = MapInsert(snapshot.fields, field_name, val)]
             u == update_object(m.objects, object)
         IN  Out([m EXCEPT !.objects = u.store], u.r)
    ELSE Out(m, Err(VmError("Runtime")))
\* array.elements.get(index as usize): a negative i64 becomes a huge usize
InBounds(elements, index) == index >= 0 /\ index < Len(elements)
\* get_array_element with an index outside the array read as Null
get_array_element_or_null(m, array_value, index_value) ==
    IF /\ array_value.t = "Array" /\ index_value.t = "Int"
       /\ get_array(m.arrays, array_value.v) # {}
    THEN IF InBounds(m.arrays[array_value.v].elements, index_value.v)
         THEN Ok(m.arrays[array_value.v].elements[index_value.v + 1])
         ELSE Ok(ValueNull)
    ELSE Err(VmError("Runtime"))
\* LoomVM::get_array_element
get_array_element(m, array_value, index_value) ==
    IF /\ array_value.t = "Array" /\ index_value.t = "Int"
       /\ get_array(m.arrays, array_value.v) # {}
       /\ InBounds(m.arrays[array_value.v].elements, index_value.v)
    THEN Ok(m.arrays[array_value.v].elements[index_value.v + 1])
    ELSE Err(VmError("Runtime"))
\* set_array_element without its update_array: the element is written into
\* the clone that get_array returned and the clone is dropped.
set_array_element_on_clone(m, array_value, index_value, val) ==
    IF /\ array_value.t = "Array" /\ index_value.t = "Int"
       /\ get_array(m.arrays, array_value.v) # {}
       /\ InBounds(m.arrays[array_value.v].elements, index_value.v)
    THEN Out(m, Ok(ValueNull))
    ELSE Out(m, Err(VmError("Runtime")))
\* LoomVM::set_array_element
set_array_element(m, array_value, index_value, val) ==
    IF /\ array_value.t = "Array" /\ index_value.t = "Int"
       /\ get_array(m.arrays, array_value.v) # {}
       /\ InBounds(m.arrays[array_value.v].elements, index_value.v)
    THEN LET snapshot == CHOOSE a \in get_array(m.arrays, array_value.v) : TRUE
             array == [snapshot EXCEPT !.elements[index_value.v + 1] = val]
             u == update_array(m.arrays, array)
         IN  Out([m EXCEPT !.arrays = u.store], u.r)
    ELSE Out(m, Err(VmError("Runtime")))
\* LoomVM::get_array_length
get_array_length(m, array_value) ==
    IF array_value.t = "Array" /\ get_array(m.arrays, array_value.v) # {}
    THEN Ok(Len(m.arrays[array_value.v].elements))
    ELSE Err(VmError("Runtime"))

\* The stack after popping n values, n <= Len(s)
Drop(s, n) == SubSeq(s, 1, Len(s) - n)
\* Instruction::NEG / NOT on the popped value
negate(val) ==
    CASE val.t = "Int" -> {IF o.k = "Ok" THEN Ok(ValueInt(o.value)) ELSE o :
                           o \in checked(-val.v)}
      [] val.t = "Float" -> {Ok(ValueFloat(-val.v))}
      [] OTHER -> {Err(VmError("TypeError"))}

(***************************************************************************)
(* LoomVM::execute_instruction for every instruction but CALL, whose       *)
(* nested execute_function is the action call_function below.  The         *)
(* instructions with no arm of their own fall to the last arm.             *)
(***************************************************************************)
execute_instruction(m, ins) ==
    LET s == m.stack
        n == Len(s)
        op == ins.op
    IN
    CASE op = "PUSH" -> {Out(WithStack(m, Append(s, ins.value)), Ok(ValueNull))}
      [] op = "POP" ->
           IF n = 0 THEN Underflow(m) ELSE {Out(WithStack(m, Front(s)), Ok(Last(s)))}
      [] op = "DUP" -> IF n = 0 THEN Underflow(m) ELSE PushOk(m, s, Last(s))
      [] op = "SWAP" ->
           IF n < 2 THEN Underflow(m)
           ELSE {Out(WithStack(m, [s EXCEPT ![n] = s[n - 1], ![n - 1] = s[n]]),
                     Ok(ValueNull))}
      [] op = "LOAD_VAR" ->
           LET got == get_variable(m, ins.name)
           IN  IF got.k = "Ok" THEN PushOk(m, s, got.value) ELSE {Out(m, got)}
      [] op = "STORE_VAR" ->
           IF n = 0 THEN Underflow(m)
           ELSE {Out(set_variable(WithStack(m, Front(s)), ins.name, Last(s)),
                     Ok(Last(s)))}
      [] op = "LOAD_CONST" ->
           IF ins.index + 1 \in DOMAIN m.constants
           THEN PushOk(m, s, m.constants[ins.index + 1])
           ELSE {Out(m, Err(VmError("Runtime")))}
      [] op \in ArithOps -> execute_binary_op(m, op)
      [] op = "NEG" ->
           IF n = 0 THEN Underflow(m)
           ELSE UNION {IF o.k = "Ok" THEN PushOk(m, Front(s), o.value)
                       ELSE {Out(WithStack(m, Front(s)), o)} : o \in negate(Last(s))}
      [] op \in CompareOps -> execute_comparison(m, op)
      [] op \in LogicalOps -> execute_logical_op(m, op)
      [] op = "NOT" ->
           IF n = 0 THEN Underflow(m)
           ELSE IF Last(s).t = "Bool"
                THEN PushOk(m, Front(s), ValueBool(~Last(s).b))
                ELSE {Out(WithStack(m, Front(s)), Err(VmError("TypeError")))}
      [] op = "JMP" -> {Out([m EXCEPT !.ip = ins.offset], Ok(ValueNull))}
      [] op = "JMP_IF" ->
           IF n = 0 THEN Underflow(m)
           ELSE {Out([m EXCEPT !.stack = Front(s),
                               !.ip = IF is_truthy(Last(s)) THEN ins.offset ELSE @],
                     Ok(ValueNull))}
      [] op = "JMP_IF_FALSE" ->
           IF n = 0 THEN Underflow(m)
           ELSE {Out([m EXCEPT !.stack = Front(s),
                               !.ip = IF ~is_truthy(Last(s)) THEN ins.offset ELSE @],
                     Ok(ValueNull))}
      [] op = "CALL_NATIVE" -> call_native_function(m, ins.name)
      [] op = "RETURN" ->
           IF n = 0 THEN {Out(m, Ok(ValueNull))}
           ELSE {Out(WithStack(m, Front(s)), Ok(Last(s)))}
      [] op = "NEW" ->
           LET al == allocate_object(m, ins.name)
           IN  PushOk(al.m, s, ValueObject(al.id))
      [] op = "GET_FIELD" ->
           IF n = 0 THEN Underflow(m)
           ELSE LET got == get_object_field(m, Last(s), ins.name)
                IN  IF got.k = "Ok" THEN PushOk(m, Front(s), got.value)
                    ELSE {Out(WithStack(m, Front(s)), got)}
      [] op = "SET_FIELD" ->
           IF n < 2 THEN Underflow(WithStack(m, << >>))
           ELSE LET done == set_object_field(WithStack(m, Drop(s, 2)), s[n - 1],
                                             ins.name, s[n])
                IN  IF done.r.k = "Ok" THEN PushOk(done.m, done.m.stack, s[n])
                    ELSE {done}
      [] op = "NEW_ARRAY" ->
           LET al == allocate_array(m, "any", ins.size)
           IN  PushOk(al.m, s, ValueArray(al.id))
      [] op = "GET_ELEMENT" ->
           IF n < 2 THEN Underflow(WithStack(m, << >>))
           ELSE LET got == get_array_element(m, s[n - 1], s[n])
                IN  IF got.k = "Ok" THEN PushOk(m, Drop(s, 2), got.value)
                    ELSE {Out(WithStack(m, Drop(s, 2)), got)}
      [] op = "SET_ELEMENT" ->
           IF n < 3 THEN Underflow(WithStack(m, << >>))
           ELSE LET done == set_array_element(WithStack(m, Drop(s, 3)), s[n - 2],
                                              s[n - 1], s[n])
                IN  IF done.r.k = "Ok" THEN PushOk(done.m, done.m.stack, s[n])
                    ELSE {done}
      [] op = "GET_LENGTH" ->
           IF n = 0 THEN Underflow(m)
           ELSE LET got == get_array_length(m, Last(s))
                IN  IF got.k = "Ok" THEN PushOk(m, Front(s), ValueInt(got.value))
                    ELSE {Out(WithStack(m, Front(s)), got)}
      [] op \in {"HALT", "NOOP", "BREAKPOINT"} -> {Out(m, Ok(ValueNull))}
      [] op = "TRACE" -> {Out(m, Ok(IF n = 0 THEN ValueNull ELSE Last(s)))}
      [] OTHER -> {Out(m, Err(InvalidInstruction(m.ip)))}

(***************************************************************************)
(* bytecode.rs: Function and BytecodeProgram, with the fields the engine   *)
(* reads.                                                                  *)
(***************************************************************************)
Fn(name, instructions) == [name |-> name, instructions |-> instructions]
BytecodeProgram(constants, functions, globals) ==
    [constants |-> constants, functions |-> functions,
     main_function |-> "main", globals |-> globals]
MainOnly(constants, instructions) ==
    BytecodeProgram(constants, [x \in {"main"} |-> Fn("main", instructions)], EmptyMap)
MainAndF(main_instructions, f_instructions) ==
    BytecodeProgram(<< >>,
                    [x \in {"main", "f"} |->
                       IF x = "main" THEN Fn("main", main_instructions)
                       ELSE Fn("f", f_instructions)],
                    EmptyMap)

\* The sequences over alphabet of length 0 .. n
SeqsUpTo(alphabet, n) == UNION {[1 .. k -> alphabet] : k \in 0 .. n}

(***************************************************************************)
(* The programs the engine is run on.                                      *)
(***************************************************************************)
\* spec.md, section 8, concrete scenarios 1, 2, 5 and 6
Scenario1 ==
    MainOnly(<<ValueInt(3), ValueInt(4)>>,
             <<LOAD_CONST(0), LOAD_CONST(1), Op("ADD"), Op("RETURN")>>)
Scenario2 ==
    MainOnly(<<ValueBool(TRUE), ValueInt(1), ValueInt(2)>>,
             <<LOAD_CONST(0), JMP_IF_FALSE(4), LOAD_CONST(1), JMP(5), LOAD_CONST(2),
               Op("RETURN")>>)
Scenario5 ==
    MainOnly(<< >>, <<PUSH(ValueInt(10)), PUSH(ValueInt(0)), Op("DIV")>>)
Scenario6 ==
    MainOnly(<< >>, <<PUSH(ValueString(<<"h", "i">>)), CALL_NATIVE("toUpperCase"),
                      Op("RETURN")>>)
\* spec.md, section 8, concrete scenarios 3 and 4
Scenario3 ==
    MainOnly(<< >>, <<NEW_OBJ("Point"), Op("DUP"), PUSH(ValueInt(5)), SET_FIELD("x"),
                      Op("POP"), GET_FIELD("x"), Op("RETURN")>>)
Scenario4 ==
    MainOnly(<< >>, <<NEW_ARRAY(3), Op("DUP"), PUSH(ValueInt(1)), PUSH(ValueInt(42)),
                      Op("SET_ELEMENT"), Op("POP"), PUSH(ValueInt(1)),
                      Op("GET_ELEMENT"), Op("RETURN")>>)
Scenarios == {Scenario1, Scenario2, Scenario3, Scenario4, Scenario5, Scenario6}

\* Bodies of control flow: every body of at most MaxBody instructions over
\* pushes, jumps to every offset of the body, RETURN, HALT and NOOP.
JumpAlphabet ==
    {PUSH(ValueInt(1)), PUSH(ValueInt(2)), Op("RETURN"), Op("HALT"), Op("NOOP")}
      \cup {JMP(k) : k \in 0 .. MaxBody}
JumpPrograms == {MainOnly(<< >>, body) : body \in SeqsUpTo(JumpAlphabet, MaxBody)}

\* Conditional jumps over one value of every kind, zero and non-zero.
TruthValues ==
    {ValueBool(TRUE), ValueBool(FALSE), ValueNull, ValueInt(0), ValueInt(1),
     ValueInt(-1), ValueFloat(0), ValueFloat(1), ValueString(<< >>),
     ValueString(<<"a">>), ValueObject(1), ValueFunction(1), ValueArray(1)}
CondPrograms ==
    {MainOnly(<< >>, <<PUSH(val), jump, PUSH(ValueInt(1)), PUSH(ValueInt(2)),
                      Op("RETURN")>>) :
        val \in TruthValues,
        jump \in {JMP_IF(k) : k \in 2 .. 4} \cup {JMP_IF_FALSE(k) : k \in 2 .. 4}}

\* Calls: a caller that binds locals, calls and goes on, and every callee
\* body of at most MaxCallee instructions over the callee alphabet.
CallerPrefixes == {<< >>, <<PUSH(ValueInt(1)), STORE_VAR("x")>>}
CallerSuffixes == {<< >>, <<Op("RETURN")>>, <<LOAD_VAR("x")>>}
CalleeAlphabet ==
    {PUSH(ValueInt(2)), STORE_VAR("x"), STORE_VAR("y"), LOAD_VAR("x"),
     Op("RETURN"), Op("HALT")}
CallPrograms ==
    {MainAndF(pre \o <<CALL(callee)>> \o post, body) :
        pre \in CallerPrefixes, post \in CallerSuffixes, callee \in {"f"},
        body \in SeqsUpTo(CalleeAlphabet, MaxCallee)}
\* A function that calls itself, a call of a name the program does not
\* define, and a program whose entry function is missing.
RecursivePrograms ==
    {MainAndF(<<CALL("f")>>, <<PUSH(ValueInt(1)), CALL("f"), Op("RETURN")>>),
     MainAndF(<<PUSH(ValueInt(1)), CALL("g"), Op("RETURN")>>, <<Op("RETURN")>>),
     BytecodeProgram(<< >>, [x \in {"f"} |-> Fn("f", <<Op("RETURN")>>)], EmptyMap)}

\* Arithmetic: every pair of operands over the small Integers and the ends
\* of the Integer range, floats with and without a fraction and beyond the
\* Integer range, and non-numbers.
IntOperands ==
    (-MaxOperand .. MaxOperand) \cup {IntMin, IntMin + 1, IntMax - 1, IntMax}
FloatOperands ==
    {ValueFloat(h) : h \in {-3, -2, -1, 0, 1, 2, 3, 2 * IntMax + 4, 2 * IntMin - 4}}
Operands ==
    {ValueInt(i) : i \in IntOperands} \cup FloatOperands
      \cup {ValueNull, ValueString(<<"a">>)}
ArithPrograms ==
    {MainOnly(<< >>, <<PUSH(a), PUSH(b), Op(opname), Op("RETURN")>>) :
        a \in Operands, b \in Operands, opname \in ArithOps}

(***************************************************************************)
(* runtime.rs: the names register_standard_library registers, and what     *)
(* Runtime::call_native yields for the natives of one argument modelled    *)
(* here.                                                                   *)
(***************************************************************************)
RegisteredNatives ==
    {"print", "println", "printf", "read_line", "add", "subtract", "multiply",
     "divide", "modulo", "abs", "sqrt", "pow", "sin", "cos", "tan", "length",
     "isEmpty", "toUpperCase", "toLowerCase", "substring", "indexOf", "replace",
     "trim", "array_length", "array_push", "array_pop", "array_insert",
     "array_remove", "typeOf", "isNull", "isNumber", "isString", "isBool",
     "isObject", "isArray", "random", "time", "sleep"}
\* str::to_uppercase over the characters of the model
to_uppercase(c) ==
    CASE c = "h" -> "H" [] c = "i" -> "I" [] c = "a" -> "A" [] OTHER -> c
\* Runtime::native_to_upper_case, native_length, native_is_empty, native_is_null
call_native(name, args) ==
    CASE name = "toUpperCase" ->
           IF Len(args) # 1 THEN Err(VmError("Runtime"))
           ELSE IF args[1].t = "String"
                THEN Ok(ValueString([x \in DOMAIN args[1].s |->
                                        to_uppercase(args[1].s[x])]))
                ELSE Err(VmError("TypeError"))
      [] name = "length" ->
           IF Len(args) # 1 THEN Err(VmError("Runtime"))
           ELSE CASE args[1].t = "String" -> Ok(ValueInt(Len(args[1].s)))
                  [] args[1].t = "Array" -> Ok(ValueInt(0))
                  [] OTHER -> Err(VmError("TypeError"))
      [] name = "isEmpty" ->
           IF Len(args) # 1 THEN Err(VmError("Runtime"))
           ELSE CASE args[1].t = "String" -> Ok(ValueBool(args[1].s = << >>))
                  [] args[1].t = "Array" -> Ok(ValueBool(TRUE))
                  [] OTHER -> Err(VmError("TypeError"))
      [] name = "isNull" ->
           IF Len(args) # 1 THEN Err(VmError("Runtime"))
           ELSE Ok(ValueBool(args[1].t = "Null"))
ModelledNatives == {"toUpperCase", "length", "isEmpty", "isNull"}
\* The engine's own natives, a name of the registry it does not dispatch,
\* and a name registered nowhere.
NativePrograms ==
    {MainOnly(<< >>, <<PUSH(val), CALL_NATIVE(name), Op("RETURN")>>) :
        val \in {ValueString(<<"h", "i">>), ValueString(<< >>), ValueNull, ValueInt(1)},
        name \in ModelledNatives \cup {"print", "println", "nosuch"}}

\* Comparisons: every pair over values of every variant, with equal and
\* different payloads, Floats with a fraction, and Strings of equal and of
\* different length.
CompareOperands ==
    {ValueInt(1), ValueInt(2), ValueFloat(2), ValueFloat(3), ValueFloat(4),
     ValueBool(TRUE), ValueBool(FALSE), ValueNull,
     ValueString(<<"b">>), ValueString(<<"a", "a">>), ValueString(<<"a", "b">>),
     ValueString(<<"a", "c">>),
     ValueObject(1), ValueObject(2), ValueArray(1), ValueFunction(1)}
ComparePrograms ==
    {MainOnly(<< >>, <<PUSH(a), PUSH(b), Op(opname), Op("RETURN")>>) :
        a \in CompareOperands, b \in CompareOperands, opname \in CompareOps}

\* Objects: a reference operand is pushed as a literal, so that a field is
\* written and read through different references that carry the same ID, or
\* through the ID of another object, of no object (dangling), or through a
\* value that is no object reference.  No, one or two objects are allocated;
\* then come a write through object 1 or none, any field operation or none,
\* and a read or none.
ObjectPrograms ==
    LET write(ref, name, val) == <<PUSH(ref), PUSH(val), SET_FIELD(name), Op("POP")>>
        read(ref, name) == <<PUSH(ref), GET_FIELD(name)>>
        writes(refs) ==
            {write(ref, name, val) :
                ref \in refs, name \in {"x", "y"}, val \in {ValueInt(5), ValueInt(6)}}
        refs == {ValueObject(1), ValueObject(2), ValueInt(5)}
        ops == writes(refs) \cup {read(ref, name) : ref \in refs, name \in {"x", "y"}}
        new == <<NEW_OBJ("Point"), Op("POP")>>
    IN  {MainOnly(<< >>, setup \o first \o mid \o last) :
            setup \in {<< >>, new, new \o new},
            first \in writes({ValueObject(1)}) \cup {<< >>},
            mid \in ops \cup {<< >>},
            last \in {read(ValueObject(1), "x"), read(ValueObject(1), "y"),
                      read(ValueObject(2), "x"), << >>}}
\* Scenarios 3 and 4 over other values, field names and indexes: the read
\* goes through the DUP of the reference the write went through.
AliasPrograms ==
    {MainOnly(<< >>, <<NEW_OBJ("Point"), Op("DUP"), PUSH(val), SET_FIELD(written),
                      Op("POP"), GET_FIELD(read), Op("RETURN")>>) :
        val \in {ValueInt(5), ValueNull}, written \in {"x", "y"}, read \in {"x", "y"}}
      \cup
    {MainOnly(<< >>, <<NEW_ARRAY(MaxArray), Op("DUP"), PUSH(ValueInt(written)), PUSH(val),
                      Op("SET_ELEMENT"), Op("POP"), PUSH(ValueInt(read)),
                      Op("GET_ELEMENT"), Op("RETURN")>>) :
        val \in {ValueInt(42), ValueNull}, written \in 0 .. MaxArray, read \in 0 .. MaxArray}
\* Arrays, likewise: indexes below, in and beyond the range of the array and
\* an index that is no Integer; through a reference other than array 1 only
\* index 0 is used.  No array, an empty one, one of MaxArray elements, or that
\* and a second one are allocated; then come an in-range write through array 1
\* or none, any array operation or none, and a read, a length or none.
ArrayPrograms ==
    LET write(ref, index, val) ==
            <<PUSH(ref), PUSH(index), PUSH(val), Op("SET_ELEMENT"), Op("POP")>>
        read(ref, index) == <<PUSH(ref), PUSH(index), Op("GET_ELEMENT")>>
        length(ref) == <<PUSH(ref), Op("GET_LENGTH")>>
        writes(refs, indexes) ==
            {write(ref, index, val) :
                ref \in refs, index \in indexes, val \in {ValueInt(42), ValueInt(7)}}
        all == {ValueInt(i) : i \in -1 .. MaxArray} \cup {ValueNull}
        inside == {ValueInt(i) : i \in 0 .. MaxArray - 1}
        others == {ValueArray(2), ValueInt(5)}
        ops == writes({ValueArray(1)}, all)
                 \cup writes(others, {ValueInt(0)})
                 \cup {read(ValueArray(1), index) : index \in all}
                 \cup {read(ref, ValueInt(0)) : ref \in others}
                 \cup {length(ref) : ref \in {ValueArray(1)} \cup others}
        new(size) == <<NEW_ARRAY(size), Op("POP")>>
    IN  {MainOnly(<< >>, setup \o first \o mid \o last) :
            setup \in {<< >>, new(0), new(MaxArray), new(MaxArray) \o new(1)},
            first \in writes({ValueArray(1)}, inside) \cup {<< >>},
            mid \in ops \cup {<< >>},
            last \in {read(ValueArray(1), index) : index \in inside}
                      \cup {length(ValueArray(1)), read(ValueArray(2), ValueInt(0)),
                            << >>}}

\* Stack and variable operations: a program with the globals g and x and one
\* constant, whose body is any sequence of at most MaxBody instructions that
\* load and store a global name, a name bound nowhere and a name bound in
\* both maps, or any such sequence of instructions that push, pop, copy,
\* swap and combine operands.
StackPrograms ==
    LET bound == [name \in {"g", "x"} |->
                    IF name = "g" THEN ValueInt(10) ELSE ValueInt(20)]
        variables == {LOAD_VAR("g"), LOAD_VAR("x"), LOAD_VAR("z"), STORE_VAR("g"),
                      STORE_VAR("x"), PUSH(ValueInt(1))}
        operands == {PUSH(ValueInt(1)), PUSH(ValueBool(TRUE)), LOAD_CONST(0),
                     LOAD_VAR("g"), Op("POP"), Op("DUP"), Op("SWAP"), Op("ADD"),
                     Op("LT"), Op("AND")}
    IN  {BytecodeProgram(<<ValueInt(3)>>, [x \in {"main"} |-> Fn("main", body)], bound) :
            body \in SeqsUpTo(variables, MaxBody) \cup SeqsUpTo(operands, MaxBody)}

\* Frames and failures: main pushes a value, allocates or does neither, calls
\* f never, once or twice and goes on with a RETURN, a STORE_VAR, a PUSH or an
\* instruction the engine gives no definition (IS_NULL, and the reserved CAST,
\* ALLOC, FREE, GET_METHOD and IS_TYPE), alone or before a PUSH; f returns
\* with and without a value of its own, pops below its frame, fails, runs a
\* reserved instruction or calls g, which returns.  And NEG on every operand
\* of the arithmetic family.
FailurePrograms ==
    LET reserved == {Op("IS_NULL"), CAST("T"), ALLOC(1), Op("FREE"), GET_METHOD("m"),
                     IS_TYPE("T")}
        pres == {<< >>, <<PUSH(ValueInt(7))>>, <<PUSH(ValueNull)>>, <<NEW_OBJ("Point")>>}
        posts == {<< >>, <<Op("RETURN")>>, <<STORE_VAR("x")>>, <<PUSH(ValueInt(9))>>}
                   \cup {<<r>> : r \in reserved}
                   \cup {<<r, PUSH(ValueInt(9))>> : r \in reserved}
        bodies == {<< >>, <<Op("RETURN")>>, <<PUSH(ValueInt(5)), Op("RETURN")>>,
                   <<Op("POP")>>, <<Op("POP"), Op("POP")>>, <<Op("ADD")>>,
                   <<CALL("g")>>, <<CALL("g"), Op("FREE")>>}
                    \cup {<<r>> : r \in reserved}
        calls == {<<CALL("f")>>, <<CALL("f"), CALL("f")>>}
        program(main, f) ==
            BytecodeProgram(<< >>,
                            [x \in {"main", "f", "g"} |->
                               CASE x = "main" -> Fn("main", main)
                                 [] x = "f" -> Fn("f", f)
                                 [] x = "g" -> Fn("g", <<PUSH(ValueInt(6)), Op("RETURN")>>)],
                            EmptyMap)
    IN  {program(pre \o post, << >>) : pre \in pres, post \in posts}
          \cup {program(pre \o call \o post, f) :
                  pre \in pres, call \in calls, post \in posts, f \in bodies}
          \cup {MainOnly(<< >>, <<PUSH(a), Op("NEG"), Op("RETURN")>>) : a \in Operands}

\* The families, one after the other: the engine is run on every program of
\* every family
Programs ==
    <<Scenarios, JumpPrograms, CondPrograms, CallPrograms, RecursivePrograms,
      ArithPrograms, NativePrograms, ComparePrograms, ObjectPrograms, AliasPrograms,
      ArrayPrograms, StackPrograms, FailurePrograms>>

(***************************************************************************)
(* State.                                                                  *)
(***************************************************************************)
VARIABLES
    file,              \* the file execute_file is given: {} where the host names none
    program,           \* LoomVM.program, as load_bytecode returned it
    stack,             \* LoomVM.stack
    locals,            \* LoomVM.locals
    globals,           \* LoomVM.globals
    call_stack,        \* LoomVM.call_stack: CallFrame records
    ip,                \* LoomVM.ip
    current_function,  \* LoomVM.current_function: {} is None, {name} is Some(name)
    objects,           \* MemoryManager.objects
    arrays,            \* MemoryManager.arrays
    next_object_id,    \* MemoryManager.next_object_id
    next_array_id,     \* MemoryManager.next_array_id
    profiler,          \* MemoryManager.profiler
    ctl,               \* the running execute_instructions loops, innermost last
    status,            \* "new", "ready", "running", "ok", "err" or "panic"
    error,             \* the VmError execute_program returned, when status = "err"
    retval,            \* what execute_function returned for the entry function
    invocations,       \* history: the number of execute_function calls so far
    trace,             \* history: the instructions executed, in order
    ev,                \* history: the last step, and the engine's fields before it
    snapshots,         \* the entry each client of the memory manager holds, from its get
    ledger,            \* history: the IDs allocated, the retentions, the calls made
    lock,              \* the RwLock of each store: who holds it for writing, for reading
    threads,           \* each client's place inside the call it is making
    writes             \* history: the entries the completed writes left in each store

vars ==
    <<file, program, stack, locals, globals, call_stack, ip, current_function, objects,
      arrays, next_object_id, next_array_id, profiler, ctl, status, error, retval,
      invocations, trace, ev, snapshots, ledger, lock, threads, writes>>

NoError == VmError("None")
\* The record m of the engine's fields
Machine ==
    [stack |-> stack, locals |-> locals, globals |-> globals, ip |-> ip,
     constants |-> program.constants, objects |-> objects, arrays |-> arrays,
     next_object_id |-> next_object_id, next_array_id |-> next_array_id,
     profiler |-> profiler]
SetMachine(m) ==
    /\ stack' = m.stack
    /\ locals' = m.locals
    /\ globals' = m.globals
    /\ ip' = m.ip
    /\ objects' = m.objects
    /\ arrays' = m.arrays
    /\ next_object_id' = m.next_object_id
    /\ next_array_id' = m.next_array_id
    /\ profiler' = m.profiler

\* vm.rs: CallFrame, as execute_function creates it
CallFrame(name, m) ==
    [function_name |-> name, return_address |-> m.ip, locals |-> EmptyMap,
     stack_base |-> Len(m.stack)]
\* One running execute_instructions loop: the function, the loop index i and
\* the loop's `result`; inv, entry and returned are history (the number of
\* the invocation, the engine's fields when it was entered, and the top of
\* stack the first RETURN it executed found, as {value}, {Null} when the
\* stack was empty).
Activation(name, m, inv) ==
    [fn |-> name, i |-> 0, result |-> ValueNull, inv |-> inv, entry |-> m,
     returned |-> {}]
Body(name) == program.functions[name].instructions
NoIns == Op("NONE")
\* The last step: the action, the instruction and its place, the engine's
\* fields before the step (pre) and what the step returned (r); for the return
\* of an invocation, its entry and returned.
Event(act, fn, idx, ins, inv, m, r) ==
    [act |-> act, fn |-> fn, idx |-> idx, ins |-> ins, inv |-> inv, pre |-> m,
     r |-> r, entry |-> m, returned |-> {}]

\* An executed instruction: its invocation, function and index, and the
\* operand stack it found.
TraceEntry(top, ins) ==
    [inv |-> top.inv, fn |-> top.fn, idx |-> top.i, ins |-> ins,
     pre_stack |-> stack]

\* The threads that share the memory manager besides the engine
Clients == {"a", "b"}
\* No client holds an entry: Option::None as {}
NoSnapshots == [c \in Clients |-> {}]
\* MemoryManager::new: nothing allocated, nothing retained, no call made
NoLedger ==
    [objects |-> << >>, arrays |-> << >>,
     object_retentions |-> [x \in {} |-> 0], array_retentions |-> [x \in {} |-> 0],
     calls |-> 0]
\* The two stores
Kinds == {"Object", "Array"}
\* No client is inside a call of the memory manager
NoThreads == [c \in Clients |-> [pc |-> "idle", kind |-> "Object", id |-> 0, part |-> {}]]
\* The locks and the calls in progress, which leave a call that runs as one
\* step as they were
lock_vars == <<lock, threads, writes>>
\* The memory manager's clients, which the engine's own run leaves alone
client_vars == <<snapshots, ledger, lock_vars>>

\* LoomVM::new, with the program load_bytecode returned
Init ==
    /\ \E family \in DOMAIN Programs : program \in Programs[family]
    /\ file = {}
    /\ snapshots = NoSnapshots
    /\ ledger = NoLedger
    /\ lock = [kind \in Kinds |-> [writer |-> {}, readers |-> {}]]
    /\ threads = NoThreads
    /\ writes = [kind \in Kinds |-> {}]
    /\ stack = << >>
    /\ locals = EmptyMap
    /\ globals = EmptyMap
    /\ call_stack = << >>
    /\ ip = 0
    /\ current_function = {}
    /\ objects = EmptyMap
    /\ arrays = EmptyMap
    /\ next_object_id = 1
    /\ next_array_id = 1
    /\ profiler = MemoryProfiler_new
    /\ ctl = << >>
    /\ status = "ready"
    /\ error = NoError
    /\ retval = ValueNull
    /\ invocations = 0
    /\ trace = << >>
    /\ ev = Event("new", "", 0, NoIns, 0, Machine, Ok(ValueNull))

\* LoomVM::execute_function up to its call of execute_instructions: the frame
\* is pushed and the callee's loop starts; self.locals is not touched.
EnterFunction(name, m) ==
    /\ call_stack' = Append(call_stack, CallFrame(name, m))
    /\ current_function' = {name}
    /\ ctl' = Append(ctl, Activation(name, m, invocations + 1))
    /\ invocations' = invocations + 1

\* An Err that ends only the loop it arose in: the calling loop takes the
\* CALL as done and goes on with its next instruction
Fail_in_callee_only(r) ==
    IF r.k = "Err" /\ Len(ctl) > 1
    THEN /\ ctl' = [Front(ctl) EXCEPT ![Len(ctl) - 1] = [@ EXCEPT !.i = @ + 1]]
         /\ UNCHANGED <<status, error, call_stack, current_function, invocations,
                        retval>>
    ELSE /\ status' = (IF r.k = "Err" THEN "err" ELSE "panic")
         /\ error' = (IF r.k = "Err" THEN r.err ELSE NoError)
         /\ ctl' = << >>
         /\ UNCHANGED <<call_stack, current_function, invocations, retval>>
\* An Err that `?` carries out of every running loop to the host, or a panic
Fail(r) ==
    /\ status' = (IF r.k = "Err" THEN "err" ELSE "panic")
    /\ error' = (IF r.k = "Err" THEN r.err ELSE NoError)
    /\ ctl' = << >>
    /\ UNCHANGED <<call_stack, current_function, invocations, retval>>

(***************************************************************************)
(* LoomVM::execute_program: seeds the globals and runs the entry function. *)
(***************************************************************************)
execute_program ==
    /\ status = "ready"
    /\ LET m == [Machine EXCEPT !.globals = program.globals]
           name == program.main_function
       IN  /\ SetMachine(m)
           /\ ev' = Event("execute_program", name, 0, NoIns, 0, Machine, Ok(ValueNull))
           /\ IF name \in DOMAIN program.functions
              THEN /\ EnterFunction(name, m)
                   /\ status' = "running"
                   /\ UNCHANGED <<error, retval>>
              ELSE Fail(Err(VmErrorNamed("UndefinedFunction", name)))
    /\ UNCHANGED <<file, program, trace, client_vars>>

(***************************************************************************)
(* One iteration of the loop of LoomVM::execute_instructions on an         *)
(* instruction other than CALL: self.ip = i, execute_instruction, and on   *)
(* Ok(value) result = value and the iterator moves to i + 1.               *)
(***************************************************************************)
execute_instructions_step ==
    /\ status = "running"
    /\ LET top == Last(ctl)
           body == Body(top.fn)
       IN  /\ top.i < Len(body)
           /\ LET ins == body[top.i + 1]
                  m == [Machine EXCEPT !.ip = top.i]
              IN  /\ ins.op # "CALL"
                  /\ \E o \in execute_instruction(m, ins) :
                       /\ SetMachine(o.m)
                       /\ ev' = Event("instruction", top.fn, top.i, ins, top.inv, m, o.r)
                       /\ trace' = Append(trace, TraceEntry(top, ins))
                       /\ IF o.r.k = "Ok"
                          THEN /\ ctl' = [ctl EXCEPT ![Len(ctl)] =
                                            [top EXCEPT
                                               !.i = top.i + 1,
                                               !.result = o.r.value,
                                               !.returned =
                                                  IF ins.op = "RETURN" /\ @ = {}
                                                  THEN {o.r.value} ELSE @]]
                               /\ UNCHANGED <<status, error, call_stack,
                                              current_function, invocations, retval>>
                          ELSE Fail(o.r)
    /\ UNCHANGED <<file, program, client_vars>>

(***************************************************************************)
(* The loop iteration on CALL(name): LoomVM::call_function looks the name  *)
(* up and enters execute_function.                                         *)
(***************************************************************************)
call_function ==
    /\ status = "running"
    /\ Len(ctl) < MaxDepth
    /\ LET top == Last(ctl)
           body == Body(top.fn)
       IN  /\ top.i < Len(body)
           /\ LET ins == body[top.i + 1]
                  m == [Machine EXCEPT !.ip = top.i]
              IN  /\ ins.op = "CALL"
                  /\ SetMachine(m)
                  /\ trace' = Append(trace, TraceEntry(top, ins))
                  /\ IF ins.name \in DOMAIN program.functions
                     THEN /\ EnterFunction(ins.name, m)
                          /\ ev' = Event("call", top.fn, top.i, ins, top.inv, m,
                                         Ok(ValueNull))
                          /\ UNCHANGED <<status, error, retval>>
                     ELSE /\ Fail(Err(VmErrorNamed("UndefinedFunction", ins.name)))
                          /\ ev' = Event("call", top.fn, top.i, ins, top.inv, m,
                                         Err(VmErrorNamed("UndefinedFunction", ins.name)))
    /\ UNCHANGED <<file, program, client_vars>>

(***************************************************************************)
(* The loop of execute_instructions is exhausted: it returns Ok(result),   *)
(* and LoomVM::execute_function pops its frame, restores ip and locals     *)
(* from it and returns the result, to the CALL of the calling loop or to   *)
(* execute_program.                                                        *)
(***************************************************************************)
execute_function_return ==
    /\ status = "running"
    /\ LET top == Last(ctl)
           frame == Last(call_stack)
           m == [Machine EXCEPT !.ip = frame.return_address,
                                !.locals = frame.locals]
       IN  /\ top.i = Len(Body(top.fn))
           /\ SetMachine(m)
           /\ call_stack' = Front(call_stack)
           /\ current_function' = {}
           /\ ev' = [Event("return", top.fn, top.i, NoIns, top.inv, Machine,
                           Ok(top.result)) EXCEPT !.entry = top.entry,
                                                  !.returned = top.returned]
           /\ IF Len(ctl) > 1
              THEN /\ ctl' = [Front(ctl) EXCEPT ![Len(ctl) - 1] =
                                [@ EXCEPT !.i = @ + 1, !.result = top.result]]
                   /\ UNCHANGED <<status, retval>>
              ELSE /\ ctl' = << >>
                   /\ status' = "ok"
                   /\ retval' = top.result
    /\ UNCHANGED <<file, program, error, invocations, trace, client_vars>>

Next ==
    \/ execute_program
    \/ execute_instructions_step
    \/ call_function
    \/ execute_function_return

Spec == Init /\ [][Next]_vars

(***************************************************************************)
(* The memory manager under its clients.  Every method of MemoryManager    *)
(* runs as one step: allocate_object, allocate_array and decrement_ref     *)
(* take &mut self, and get, update and increment_ref hold the store's lock *)
(* from their first access to their return.  A client is a thread that     *)
(* calls the methods in any order and keeps, between its calls, the entry  *)
(* its last get returned; update_object and update_array take that entry   *)
(* by value.                                                               *)
(***************************************************************************)
\* The fields of the engine that no method of the memory manager touches
engine_vars ==
    <<file, program, call_stack, current_function, ctl, status, error, retval,
      invocations, trace>>
\* The last call: the method, the calling client ("" where the model does not
\* tell the clients apart), the argument, the manager's fields before the call
\* and what the call returned.
HeapEvent(act, client, arg, m, r) ==
    [act |-> act, client |-> client, arg |-> arg, pre |-> m, r |-> r]
\* The values handed to increment_ref and decrement_ref
RefValues ==
    {ValueObject(id) : id \in 1 .. MaxAlloc} \cup {ValueArray(id) : id \in 1 .. MaxAlloc}
      \cup {ValueInt(5)}
\* A retain or release of value counted in the retentions: by delta, for an
\* ID that was allocated and still has a retention
Counted(retentions, value, kind, delta) ==
    IF value.t = kind /\ value.v \in DOMAIN retentions /\ retentions[value.v] > 0
    THEN [retentions EXCEPT ![value.v] = @ + delta]
    ELSE retentions

\* MemoryManager::new inside LoomVM::new; no program is run
HeapInit ==
    /\ program = MainOnly(<< >>, << >>)
    /\ file = {}
    /\ stack = << >>
    /\ locals = EmptyMap
    /\ globals = EmptyMap
    /\ call_stack = << >>
    /\ ip = 0
    /\ current_function = {}
    /\ objects = EmptyMap
    /\ arrays = EmptyMap
    /\ next_object_id = 1
    /\ next_array_id = 1
    /\ profiler = MemoryProfiler_new
    /\ ctl = << >>
    /\ status = "ready"
    /\ error = NoError
    /\ retval = ValueNull
    /\ invocations = 0
    /\ trace = << >>
    /\ snapshots = NoSnapshots
    /\ ledger = NoLedger
    /\ lock = [kind \in Kinds |-> [writer |-> {}, readers |-> {}]]
    /\ threads = NoThreads
    /\ writes = [kind \in Kinds |-> {}]
    /\ ev = HeapEvent("new", "", ValueNull, Machine, {})

\* allocate_object, while fewer than MaxAlloc objects were allocated
client_allocate_object ==
    /\ ledger.calls < MaxCalls
    /\ next_object_id <= MaxAlloc
    /\ LET al == allocate_object(Machine, "Point")
       IN  /\ SetMachine(al.m)
           /\ ledger' = [ledger EXCEPT
                           !.objects = Append(@, al.id),
                           !.object_retentions = MapInsert(@, al.id, 1),
                           !.calls = @ + 1]
           /\ ev' = HeapEvent("allocate_object", "", ValueNull, Machine, {al.id})
    /\ UNCHANGED <<snapshots, engine_vars, lock_vars>>

\* allocate_array, of one element
client_allocate_array ==
    /\ ledger.calls < MaxCalls
    /\ next_array_id <= MaxAlloc
    /\ LET al == allocate_array(Machine, "any", 1)
       IN  /\ SetMachine(al.m)
           /\ ledger' = [ledger EXCEPT
                           !.arrays = Append(@, al.id),
                           !.array_retentions = MapInsert(@, al.id, 1),
                           !.calls = @ + 1]
           /\ ev' = HeapEvent("allocate_array", "", ValueNull, Machine, {al.id})
    /\ UNCHANGED <<snapshots, engine_vars, lock_vars>>

\* A client calls get_object and keeps what it returned in place of what it
\* held
client_get_object ==
    /\ ledger.calls < MaxCalls
    /\ \E c \in Clients : \E id \in 1 .. MaxAlloc :
         /\ snapshots' = [snapshots EXCEPT ![c] = get_object(objects, id)]
         /\ ev' = HeapEvent("get_object", c, ValueObject(id), Machine,
                            get_object(objects, id))
    /\ ledger' = [ledger EXCEPT !.calls = @ + 1]
    /\ SetMachine(Machine)
    /\ UNCHANGED <<engine_vars, lock_vars>>

client_get_array ==
    /\ ledger.calls < MaxCalls
    /\ \E c \in Clients : \E id \in 1 .. MaxAlloc :
         /\ snapshots' = [snapshots EXCEPT ![c] = get_array(arrays, id)]
         /\ ev' = HeapEvent("get_array", c, ValueArray(id), Machine,
                            get_array(arrays, id))
    /\ ledger' = [ledger EXCEPT !.calls = @ + 1]
    /\ SetMachine(Machine)
    /\ UNCHANGED <<engine_vars, lock_vars>>

\* A client hands the object it holds to update_object, as it got it or with
\* a field inserted (what LoomVM::set_object_field does with its clone):
\* client a inserts x, client b inserts y
client_update_object ==
    /\ ledger.calls < MaxCalls
    /\ \E c \in Clients : \E held \in snapshots[c] : \E insert \in BOOLEAN :
         /\ "fields" \in DOMAIN held
         /\ LET object == IF insert
                          THEN [held EXCEPT !.fields =
                                  MapInsert(@, IF c = "a" THEN "x" ELSE "y",
                                            ValueInt(5))]
                          ELSE held
                u == update_object(objects, object)
            IN  /\ SetMachine([Machine EXCEPT !.objects = u.store])
                /\ ev' = HeapEvent("update_object", c, object, Machine, u.r)
         /\ snapshots' = [snapshots EXCEPT ![c] = {}]
    /\ ledger' = [ledger EXCEPT !.calls = @ + 1]
    /\ UNCHANGED <<engine_vars, lock_vars>>

\* A client hands the array it holds to update_array, as it got it or with
\* an element written (what LoomVM::set_array_element does with its clone)
client_update_array ==
    /\ ledger.calls < MaxCalls
    /\ \E c \in Clients : \E held \in snapshots[c] : \E write \in BOOLEAN :
         /\ "elements" \in DOMAIN held
         /\ LET array == IF write /\ Len(held.elements) > 0
                         THEN [held EXCEPT !.elements[1] = ValueInt(7)]
                         ELSE held
                u == update_array(arrays, array)
            IN  /\ SetMachine([Machine EXCEPT !.arrays = u.store])
                /\ ev' = HeapEvent("update_array", c, array, Machine, u.r)
         /\ snapshots' = [snapshots EXCEPT ![c] = {}]
    /\ ledger' = [ledger EXCEPT !.calls = @ + 1]
    /\ UNCHANGED <<engine_vars, lock_vars>>

\* increment_ref, while the count of the entry is below MaxRefs
client_increment_ref ==
    /\ ledger.calls < MaxCalls
    /\ \E value \in RefValues :
         /\ value.t = "Object" /\ value.v \in DOMAIN objects
              => objects[value.v].ref_count < MaxRefs
         /\ value.t = "Array" /\ value.v \in DOMAIN arrays
              => arrays[value.v].ref_count < MaxRefs
         /\ SetMachine(increment_ref(Machine, value))
         /\ ledger' = [ledger EXCEPT
                         !.object_retentions = Counted(@, value, "Object", 1),
                         !.array_retentions = Counted(@, value, "Array", 1),
                         !.calls = @ + 1]
         /\ ev' = HeapEvent("increment_ref", "", value, Machine, {})
    /\ UNCHANGED <<snapshots, engine_vars, lock_vars>>

\* decrement_ref
client_decrement_ref ==
    /\ ledger.calls < MaxCalls
    /\ \E value \in RefValues :
         /\ SetMachine(decrement_ref(Machine, value))
         /\ ledger' = [ledger EXCEPT
                         !.object_retentions = Counted(@, value, "Object", -1),
                         !.array_retentions = Counted(@, value, "Array", -1),
                         !.calls = @ + 1]
         /\ ev' = HeapEvent("decrement_ref", "", value, Machine, {})
    /\ UNCHANGED <<snapshots, engine_vars, lock_vars>>

HeapNext ==
    \/ client_allocate_object
    \/ client_allocate_array
    \/ client_get_object
    \/ client_get_array
    \/ client_update_object
    \/ client_update_array
    \/ client_increment_ref
    \/ client_decrement_ref

HeapSpec == HeapInit /\ [][HeapNext]_vars

(***************************************************************************)
(* The memory manager under its clients, with the locks.  get, update and  *)
(* increment_ref take &self and can run on several threads at once; each   *)
(* takes the RwLock of its store, for reading (get) or for writing.  The   *)
(* copy of an entry out of the store (Clone of Object / Array, field after *)
(* field) and the move of an entry into it (HashMap::insert) are not one   *)
(* memory access: here each is two, the fields before ref_count, and the   *)
(* lock is held from before the first to after the second.  allocate and   *)
(* decrement_ref take &mut self: no other call is in progress while one    *)
(* of them runs.                                                           *)
(***************************************************************************)
\* RwLock::read returns when no writer holds the lock, RwLock::write when
\* nobody holds it
read_acquirable_always(l) == TRUE
read_acquirable(l) == l.writer = {}
write_acquirable(l) == l.writer = {} /\ l.readers = {}
\* &mut self: the borrow is exclusive
Exclusive == \A c \in Clients : threads[c].pc = "idle"
\* The manager's fields with the store of a kind replaced
SetStore(kind, store) ==
    IF kind = "Object" THEN [Machine EXCEPT !.objects = store]
    ELSE [Machine EXCEPT !.arrays = store]
\* The entries the store of value's kind holds under value's ID
Written(m, value) ==
    CASE value.t = "Object" -> get_object(m.objects, value.v)
      [] value.t = "Array" -> get_array(m.arrays, value.v)
      [] OTHER -> {}

\* allocate_object / allocate_array
thread_allocate ==
    /\ ledger.calls < MaxCalls
    /\ Exclusive
    /\ \E kind \in Kinds :
         LET al == IF kind = "Object" THEN allocate_object(Machine, "Point")
                   ELSE allocate_array(Machine, "any", 1)
             value == [t |-> kind, v |-> al.id]
         IN  /\ al.id <= MaxAlloc
             /\ SetMachine(al.m)
             /\ writes' = [writes EXCEPT ![kind] = @ \cup Written(al.m, value)]
             /\ ledger' = IF kind = "Object"
                          THEN [ledger EXCEPT
                                  !.objects = Append(@, al.id),
                                  !.object_retentions = MapInsert(@, al.id, 1),
                                  !.calls = @ + 1]
                          ELSE [ledger EXCEPT
                                  !.arrays = Append(@, al.id),
                                  !.array_retentions = MapInsert(@, al.id, 1),
                                  !.calls = @ + 1]
             /\ ev' = HeapEvent("allocate", "", value, Machine, {al.id})
    /\ UNCHANGED <<snapshots, lock, threads, engine_vars>>

\* decrement_ref
thread_decrement_ref ==
    /\ ledger.calls < MaxCalls
    /\ Exclusive
    /\ \E value \in RefValues :
         LET m == decrement_ref(Machine, value)
         IN  /\ SetMachine(m)
             /\ writes' = IF value.t \in Kinds
                          THEN [writes EXCEPT ![value.t] = @ \cup Written(m, value)]
                          ELSE writes
             /\ ledger' = [ledger EXCEPT
                             !.object_retentions = Counted(@, value, "Object", -1),
                             !.array_retentions = Counted(@, value, "Array", -1),
                             !.calls = @ + 1]
             /\ ev' = HeapEvent("decrement_ref", "", value, Machine, {})
    /\ UNCHANGED <<snapshots, lock, threads, engine_vars>>

\* increment_ref, by a thread other than the clients: the write lock is taken,
\* the count is incremented in place and the lock is released
thread_increment_ref ==
    /\ ledger.calls < MaxCalls
    /\ \E value \in RefValues :
         LET m == increment_ref(Machine, value)
         IN  /\ value.t \in Kinds => write_acquirable(lock[value.t])
             /\ \A entry \in Written(Machine, value) : entry.ref_count < MaxRefs
             /\ SetMachine(m)
             /\ writes' = IF value.t \in Kinds
                          THEN [writes EXCEPT ![value.t] = @ \cup Written(m, value)]
                          ELSE writes
             /\ ledger' = [ledger EXCEPT
                             !.object_retentions = Counted(@, value, "Object", 1),
                             !.array_retentions = Counted(@, value, "Array", 1),
                             !.calls = @ + 1]
             /\ ev' = HeapEvent("increment_ref", "", value, Machine, {})
    /\ UNCHANGED <<snapshots, lock, threads, engine_vars>>

\* get_object / get_array, up to the middle of the clone: the read lock is
\* taken, the entry is looked up and its fields before ref_count are copied
thread_get_begin ==
    /\ ledger.calls < MaxCalls
    /\ \E c \in Clients : \E kind \in Kinds : \E id \in 1 .. MaxAlloc :
         LET value == [t |-> kind, v |-> id]
         IN  /\ threads[c].pc = "idle"
             /\ read_acquirable(lock[kind])
             /\ lock' = [lock EXCEPT ![kind].readers = @ \cup {c}]
             /\ threads' = [threads EXCEPT ![c] =
                              [pc |-> "get", kind |-> kind, id |-> id,
                               part |-> Written(Machine, value)]]
             /\ ev' = HeapEvent("read", c, value, Machine, {})
    /\ ledger' = [ledger EXCEPT !.calls = @ + 1]
    /\ SetMachine(Machine)
    /\ UNCHANGED <<snapshots, writes, engine_vars>>

\* The rest of get_object / get_array: ref_count is copied, the read lock is
\* released and the client keeps what the call returned
thread_get_end ==
    /\ \E c \in Clients :
         LET th == threads[c]
             value == [t |-> th.kind, v |-> th.id]
             got == {[part EXCEPT !.ref_count = stored.ref_count] :
                       part \in th.part, stored \in Written(Machine, value)}
         IN  /\ th.pc = "get"
             /\ lock' = [lock EXCEPT ![th.kind].readers = @ \ {c}]
             /\ threads' = [threads EXCEPT ![c] = NoThreads[c]]
             /\ snapshots' = [snapshots EXCEPT ![c] = got]
             /\ ev' = HeapEvent(IF th.kind = "Object" THEN "get_object" ELSE "get_array",
                                c, value, Machine, got)
    /\ SetMachine(Machine)
    /\ UNCHANGED <<ledger, writes, engine_vars>>

\* update_object / update_array with the entry the client holds, as it got it
\* or changed as client_update_object and client_update_array change it, up to
\* the middle of the insert: the write lock is taken, the ID is looked up and
\* the fields before ref_count are stored
thread_update_begin ==
    /\ ledger.calls < MaxCalls
    /\ \E c \in Clients : \E held \in snapshots[c] : \E change \in BOOLEAN :
         LET kind == IF "fields" \in DOMAIN held THEN "Object" ELSE "Array"
             entry == CASE ~change -> held
                        [] change /\ kind = "Object" ->
                             [held EXCEPT !.fields =
                                MapInsert(@, IF c = "a" THEN "x" ELSE "y", ValueInt(5))]
                        [] change /\ kind = "Array" ->
                             IF Len(held.elements) > 0
                             THEN [held EXCEPT !.elements[1] = ValueInt(7)]
                             ELSE held
             store == IF kind = "Object" THEN objects ELSE arrays
         IN  /\ threads[c].pc = "idle"
             /\ write_acquirable(lock[kind])
             /\ lock' = [lock EXCEPT ![kind].writer = {c}]
             /\ threads' = [threads EXCEPT ![c] =
                              [pc |-> "update", kind |-> kind, id |-> entry.id,
                               part |-> {entry}]]
             /\ SetMachine(SetStore(kind,
                   IF entry.id \in DOMAIN store
                   THEN [store EXCEPT ![entry.id] =
                           [entry EXCEPT !.ref_count = store[entry.id].ref_count]]
                   ELSE store))
             /\ snapshots' = [snapshots EXCEPT ![c] = {}]
             /\ ev' = HeapEvent("write", c, entry, Machine, {})
    /\ ledger' = [ledger EXCEPT !.calls = @ + 1]
    /\ UNCHANGED <<writes, engine_vars>>

\* The rest of update_object / update_array: ref_count is stored, which
\* completes the replacement of the entry, the write lock is released and the
\* call returns
thread_update_end ==
    /\ \E c \in Clients : \E entry \in threads[c].part :
         LET th == threads[c]
             u == IF th.kind = "Object" THEN update_object(objects, entry)
                  ELSE update_array(arrays, entry)
         IN  /\ th.pc = "update"
             /\ SetMachine(SetStore(th.kind, u.store))
             /\ writes' = IF u.r.k = "Ok"
                          THEN [writes EXCEPT ![th.kind] = @ \cup {entry}]
                          ELSE writes
             /\ lock' = [lock EXCEPT ![th.kind].writer = {}]
             /\ threads' = [threads EXCEPT ![c] = NoThreads[c]]
             /\ ev' = HeapEvent(IF th.kind = "Object" THEN "update_object"
                                ELSE "update_array", c, entry, Machine, u.r)
    /\ UNCHANGED <<snapshots, ledger, engine_vars>>

LockNext ==
    \/ thread_allocate
    \/ thread_decrement_ref
    \/ thread_increment_ref
    \/ thread_get_begin
    \/ thread_get_end
    \/ thread_update_begin
    \/ thread_update_end

LockSpec == HeapInit /\ [][LockNext]_vars

(***************************************************************************)
(* LoomVM::execute_file: the engine as LoomVM::new leaves it, given a file *)
(* to load and run.  A file is what the file system and the decoders make  *)
(* of it: whether File::open and read_to_end succeed, and for the bytes    *)
(* read what bincode::deserialize returns, whether String::from_utf8       *)
(* accepts them, and what serde_json::from_str returns for the string;     *)
(* Ok(program) is {program} and Err is {}.                                 *)
(***************************************************************************)
\* The programs the files decode to
Encoded ==
    {Scenario1, Scenario5,
     MainAndF(<<CALL("f"), Op("RETURN")>>, <<PUSH(ValueInt(2)), Op("RETURN")>>)}
\* The files: bytes that are not valid UTF-8 are no JSON text, and nothing is
\* decoded of a file that is not read
Files ==
    {f \in [opens : BOOLEAN, reads : BOOLEAN,
            bincode : {{}} \cup {{p} : p \in Encoded},
            utf8 : BOOLEAN,
            json : {{}} \cup {{p} : p \in Encoded}] :
       /\ f.json # {} => f.utf8
       /\ ~f.opens => ~f.reads
       /\ ~f.reads => (f.bincode = {} /\ f.json = {} /\ ~f.utf8)}
\* LoomVM.program = None
NoProgram == BytecodeProgram(<< >>, [x \in {} |-> Fn(x, << >>)], EmptyMap)
\* Result<BytecodeProgram, VmError>::Ok
Loaded(decoded) == [k |-> "Ok", program |-> decoded]
\* LoomVM::load_bytecode
load_bytecode(f) ==
    IF ~f.opens THEN Err(VmError("Io"))
    ELSE IF ~f.reads THEN Err(VmError("Io"))
    ELSE IF f.bincode # {} THEN Loaded(CHOOSE p \in f.bincode : TRUE)
    ELSE IF f.utf8
         THEN IF f.json # {} THEN Loaded(CHOOSE p \in f.json : TRUE)
              ELSE Err(VmError("Serialization"))
    ELSE Err(VmError("InvalidBytecode"))

\* LoomVM::new, and the file the host is about to name
LoadInit ==
    /\ file \in {{f} : f \in Files}
    /\ program = NoProgram
    /\ snapshots = NoSnapshots
    /\ ledger = NoLedger
    /\ lock = [kind \in Kinds |-> [writer |-> {}, readers |-> {}]]
    /\ threads = NoThreads
    /\ writes = [kind \in Kinds |-> {}]
    /\ stack = << >>
    /\ locals = EmptyMap
    /\ globals = EmptyMap
    /\ call_stack = << >>
    /\ ip = 0
    /\ current_function = {}
    /\ objects = EmptyMap
    /\ arrays = EmptyMap
    /\ next_object_id = 1
    /\ next_array_id = 1
    /\ profiler = MemoryProfiler_new
    /\ ctl = << >>
    /\ status = "new"
    /\ error = NoError
    /\ retval = ValueNull
    /\ invocations = 0
    /\ trace = << >>
    /\ ev = Event("new", "", 0, NoIns, 0, Machine, Ok(ValueNull))

\* execute_file up to its call of execute_program: load_bytecode(filename)?
\* and self.program = Some(program)
execute_file ==
    /\ status = "new"
    /\ \E f \in file :
         LET r == load_bytecode(f)
         IN  /\ ev' = Event("execute_file", "", 0, NoIns, 0, Machine,
                            IF r.k = "Ok" THEN Ok(ValueNull) ELSE r)
             /\ IF r.k = "Ok"
                THEN /\ program' = r.program
                     /\ status' = "ready"
                     /\ UNCHANGED <<error, ctl, call_stack, current_function,
                                    invocations, retval>>
                ELSE /\ Fail(r)
                     /\ UNCHANGED program
    /\ SetMachine(Machine)
    /\ UNCHANGED <<file, trace, client_vars>>

LoadNext ==
    \/ execute_file
    \/ execute_program
    \/ execute_instructions_step
    \/ call_function
    \/ execute_function_return

LoadSpec == LoadInit /\ [][LoadNext]_vars

(***************************************************************************)
(* The engine's run on a thread that keeps running: a call of              *)
(* execute_program that can take its next step takes it.                   *)
(***************************************************************************)
FairSpec == Spec /\ WF_vars(Next)

(***************************************************************************)
(* Properties.                                                             *)
(***************************************************************************)
Executed(opnames) == ev.act = "instruction" /\ ev.ins.op \in opnames
IsPrefix(s, t) == Len(s) <= Len(t) /\ s = SubSeq(t, 1, Len(s))
InRange(entry) == entry.ins.offset < Len(Body(entry.fn))

\* C1: the instruction executed immediately after JMP(n), n in range, is the
\* instruction at index n of the same body.
C1_JmpTransfersControl ==
    \A j \in 1 .. Len(trace) - 1 :
      (trace[j].ins.op = "JMP" /\ InRange(trace[j]))
        => /\ trace[j + 1].inv = trace[j].inv
           /\ trace[j + 1].idx = trace[j].ins.offset

\* The falsy values as section 3 of the specification lists them
SpecFalsy ==
    {ValueBool(FALSE), ValueNull, ValueInt(0), ValueFloat(0), ValueString(<< >>)}
Taken(entry) ==
    LET popped == Last(entry.pre_stack)
    IN  IF entry.ins.op = "JMP_IF" THEN popped \notin SpecFalsy
        ELSE popped \in SpecFalsy
\* C2: JMP_IF(n) / JMP_IF_FALSE(n) pop one value and continue at index n
\* exactly when it is truthy / falsy, otherwise at the next index; scenario 2
\* returns Integer 1.
C2_ConditionalJumps ==
    /\ \A j \in 1 .. Len(trace) - 1 :
         (/\ trace[j].ins.op \in {"JMP_IF", "JMP_IF_FALSE"}
          /\ trace[j].pre_stack # << >>
          /\ InRange(trace[j]))
           => /\ trace[j + 1].inv = trace[j].inv
              /\ trace[j + 1].idx = (IF Taken(trace[j]) THEN trace[j].ins.offset
                                     ELSE trace[j].idx + 1)
              /\ trace[j + 1].pre_stack = Front(trace[j].pre_stack)
    /\ (program = Scenario2 /\ status \notin {"ready", "running"})
         => (status = "ok" /\ retval = ValueInt(1))

\* C3: once RETURN has been executed in an invocation, no further instruction
\* of that invocation is executed.
C3_ReturnTerminatesInvocation ==
    \A j \in 1 .. Len(trace) : \A k \in 1 .. Len(trace) :
      (j < k /\ trace[j].ins.op = "RETURN") => trace[k].inv # trace[j].inv

\* C4: once HALT has been executed, in the entry function or in a callee, no
\* further instruction of any frame is executed and the run does not fail.
C4_HaltTerminatesRun ==
    \A j \in 1 .. Len(trace) :
      trace[j].ins.op = "HALT" => (j = Len(trace) /\ status \in {"running", "ok"})

\* The names a STORE_VAR of invocation inv has bound
StoredBy(inv) ==
    {trace[j].ins.name : j \in {x \in 1 .. Len(trace) :
        /\ trace[x].inv = inv
        /\ trace[x].ins.op = "STORE_VAR"
        /\ trace[x].pre_stack # << >>}}
\* C5: the callee runs with fresh locals: a LOAD_VAR of a name that is not a
\* global and that the running invocation itself has not stored fails with
\* UndefinedVariable.
C5_CalleeLocalsFresh ==
    (/\ Executed({"LOAD_VAR"})
     /\ ev.ins.name \notin DOMAIN globals
     /\ ev.ins.name \notin StoredBy(ev.inv))
      => (/\ ev.r = Err(VmErrorNamed("UndefinedVariable", ev.ins.name))
          /\ status = "err"
          /\ error.kind = "UndefinedVariable")

\* C6: when a CALL has completed, the caller's locals are what they were
\* immediately before the CALL.
C6_CallRestoresLocals ==
    (ev.act = "return" /\ status = "running") => locals = ev.entry.locals

\* C7: the value an invocation returns is the top of the operand stack at the
\* RETURN it executed, Null if the stack was empty there.
C7_ReturnValueIsTopOfStack ==
    (ev.act = "return" /\ ev.returned # {}) => ev.r.value \in ev.returned

\* C8: CALL_NATIVE(name) of a registered name takes the native's argument from
\* the operand stack and pushes the native's result; scenario 6 returns "HI".
C8_CallNativeRoutesToRegistry ==
    /\ (/\ Executed({"CALL_NATIVE"})
        /\ ev.ins.name \in ModelledNatives
        /\ ev.pre.stack # << >>)
         => LET native == call_native(ev.ins.name, <<Last(ev.pre.stack)>>)
            IN  IF native.k = "Ok"
                THEN ev.r.k = "Ok"
                       /\ stack = Append(Front(ev.pre.stack), native.value)
                ELSE ev.r = native
    /\ (program = Scenario6 /\ status \notin {"ready", "running"})
         => (status = "ok" /\ retval = ValueString(<<"H", "I">>))

\* left op right over the integers: the sum, difference and product, the
\* quotient rounded toward zero and the remainder that goes with it.
Quotient(l, r) ==
    CHOOSE q \in -Abs(l) .. Abs(l) :
      \E rem \in -Abs(r) .. Abs(r) :
        /\ l = q * r + rem
        /\ Abs(rem) < Abs(r)
        /\ (rem = 0 \/ (rem < 0) = (l < 0))
Exact(opname, l, r) ==
    CASE opname = "ADD" -> l + r
      [] opname = "SUB" -> l - r
      [] opname = "MUL" -> l * r
      [] opname = "DIV" -> Quotient(l, r)
      [] opname = "MOD" -> l - r * Quotient(l, r)
IntegerOperands ==
    /\ Executed(ArithOps)
    /\ Len(ev.pre.stack) >= 2
    /\ pop2(ev.pre.stack).a.t = "Int"
    /\ pop2(ev.pre.stack).b.t = "Int"
\* C9: on two Integers, ADD, SUB, MUL, DIV and MOD pop both, take the former
\* top of stack as the right operand and push the Integer left op right,
\* whenever left op right is an Integer (DIV and MOD with a non-zero right
\* operand); scenario 1 returns Integer 7.
C9_IntegerArithmetic ==
    /\ IntegerOperands
         => LET n == Len(ev.pre.stack)
                left == ev.pre.stack[n - 1].v
                right == ev.pre.stack[n].v
            IN  (/\ ev.ins.op \in {"DIV", "MOD"} => right # 0
                 /\ Exact(ev.ins.op, left, right) \in IntRange)
                  => /\ ev.r = Ok(ValueInt(Exact(ev.ins.op, left, right)))
                     /\ stack = Append(SubSeq(ev.pre.stack, 1, n - 2),
                                       ValueInt(Exact(ev.ins.op, left, right)))
    /\ (program = Scenario1 /\ status \notin {"ready", "running"})
         => (status = "ok" /\ retval = ValueInt(7))
IsNumber(val) == val.t \in {"Int", "Float"}
\* C10: DIV and MOD whose right operand is numeric zero fail with
\* DivisionByZero for every numeric left operand, and push no result.
C10_DivisionByZero ==
    (/\ Executed({"DIV", "MOD"})
     /\ Len(ev.pre.stack) >= 2
     /\ IsNumber(ev.pre.stack[Len(ev.pre.stack) - 1])
     /\ Last(ev.pre.stack) \in {ValueInt(0), ValueFloat(0)})
      => /\ ev.r = Err(VmError("DivisionByZero"))
         /\ status = "err"
         /\ error.kind = "DivisionByZero"
         /\ IsPrefix(stack, ev.pre.stack)
\* C10, reached: a Float left operand MOD Integer 0 has failed.
C10_Witness ==
    /\ Executed({"MOD"})
    /\ ev.pre.stack = <<ValueFloat(3), ValueInt(0)>>
    /\ status = "err"
    /\ error.kind = "DivisionByZero"

\* A number in halves, as a Float carries it: an Integer operand is widened.
Widened(val) == IF val.t = "Int" THEN as_f64(val.v) ELSE val.v
\* left op right over the floats, in halves, where the result is a number of
\* halves: {} where it is not (a product or a quotient with a finer fraction).
ExactFloat(opname, l, r) ==
    CASE opname = "ADD" -> {l + r}
      [] opname = "SUB" -> {l - r}
      [] opname = "MUL" -> IF (l * r) % 2 = 0 THEN {(l * r) \div 2} ELSE {}
      [] opname = "DIV" -> IF (2 * l) % r = 0 THEN {(2 * l) \div r} ELSE {}
FloatOperandCase ==
    /\ Executed({"ADD", "SUB", "MUL", "DIV"})
    /\ Len(ev.pre.stack) >= 2
    /\ IsNumber(pop2(ev.pre.stack).a)
    /\ IsNumber(pop2(ev.pre.stack).b)
    /\ "Float" \in {pop2(ev.pre.stack).a.t, pop2(ev.pre.stack).b.t}
    /\ ev.ins.op = "DIV" => Widened(pop2(ev.pre.stack).b) # 0
\* C11: with at least one Float operand, ADD, SUB, MUL and DIV push the Float
\* whose value is the operation applied to the operands as floats, an Integer
\* operand widened and no operand truncated (Float 1.5 ADD Float 1.5 yields
\* Float 3.0).
C11_FloatArithmetic ==
    FloatOperandCase
      => LET p == pop2(ev.pre.stack)
             exact == ExactFloat(ev.ins.op, Widened(p.a), Widened(p.b))
         IN  /\ ev.r.k = "Ok"
             /\ ev.r.value.t = "Float"
             /\ \A h \in exact : ev.r.value = ValueFloat(h)
             /\ stack = Append(p.rest, ev.r.value)

\* Two values of the same variant with equal payload
SameValue(a, b) ==
    /\ a.t = b.t
    /\ CASE a.t = "Bool" -> a.b = b.b
         [] a.t = "String" -> a.s = b.s
         [] OTHER -> a.v = b.v
\* C12: EQ pops two values and pushes Boolean true when both have the same
\* variant and equal payload and false otherwise, NE the negation, for every
\* pair of values; neither fails with TypeError.
C12_EqualityIsTotal ==
    (Executed({"EQ", "NE"}) /\ Len(ev.pre.stack) >= 2)
      => LET p == pop2(ev.pre.stack)
             expected == ValueBool((ev.ins.op = "EQ") = SameValue(p.a, p.b))
         IN  /\ ev.r = Ok(expected)
             /\ stack = Append(p.rest, expected)

\* The rank of a character of the model's strings in the character order
CharRank(c) == CASE c = "a" -> 1 [] c = "b" -> 2 [] c = "c" -> 3 [] OTHER -> 0
\* s before t in the lexicographic order
LexLess(s, t) ==
    \E k \in 0 .. Len(s) :
      /\ k <= Len(t)
      /\ \A x \in 1 .. k : s[x] = t[x]
      /\ IF k = Len(s) THEN k < Len(t)
         ELSE k < Len(t) /\ CharRank(s[k + 1]) < CharRank(t[k + 1])
\* What an ordering comparison of the specification yields on left and right
Ordered(opname, isLess, isEqual) ==
    CASE opname = "LT" -> isLess
      [] opname = "LE" -> isLess \/ isEqual
      [] opname = "GT" -> ~isLess /\ ~isEqual
      [] opname = "GE" -> ~isLess
\* C13: LT, LE, GT and GE compare two numbers numerically, an Integer widened
\* against a Float, and two Strings lexicographically; every other pair of
\* operand kinds fails with TypeError.
C13_OrderingComparisons ==
    (Executed({"LT", "LE", "GT", "GE"}) /\ Len(ev.pre.stack) >= 2)
      => LET p == pop2(ev.pre.stack)
         IN  CASE IsNumber(p.a) /\ IsNumber(p.b) ->
                    ev.r = Ok(ValueBool(Ordered(ev.ins.op,
                                                Widened(p.a) < Widened(p.b),
                                                Widened(p.a) = Widened(p.b))))
               [] p.a.t = "String" /\ p.b.t = "String" ->
                    ev.r = Ok(ValueBool(Ordered(ev.ins.op, LexLess(p.a.s, p.b.s),
                                                p.a.s = p.b.s)))
               [] OTHER -> ev.r = Err(VmError("TypeError"))

\* The instruction at place j of the trace returned Ok: the run went on after
\* it, or it is the last one executed and the run has not failed.
Completed(j) == j < Len(trace) \/ status \in {"running", "ok"}
\* The operand stack the instruction at place j of the trace left
StackAfter(j) == IF j < Len(trace) THEN trace[j + 1].pre_stack ELSE stack
\* The operand k places below the top of the stack entry found (0 is the top)
Operand(entry, k) == entry.pre_stack[Len(entry.pre_stack) - k]
IsRef(val, kind, id) == val.t = kind /\ val.v = id
\* The entry is SET_FIELD(name) through a reference to object id
WritesField(entry, id, name) ==
    /\ entry.ins = SET_FIELD(name)
    /\ Len(entry.pre_stack) >= 2
    /\ IsRef(Operand(entry, 1), "Object", id)
\* The entry is GET_FIELD(name) through a reference to object id
ReadsField(entry, id, name) ==
    /\ entry.ins = GET_FIELD(name)
    /\ Len(entry.pre_stack) >= 1
    /\ IsRef(Operand(entry, 0), "Object", id)
ObjectIds == 1 .. next_object_id
FieldNames == {"x", "y"}
\* C14: after SET_FIELD(name) has stored v through a reference to object id,
\* GET_FIELD(name) through any reference with that id pushes v, until the next
\* SET_FIELD(name) on the object; SET_FIELD leaves v on top of the stack; and
\* scenario 3 returns Integer 5.
C14_ObjectRoundTrip ==
    /\ \A id \in ObjectIds : \A name \in FieldNames :
         \A j \in 1 .. Len(trace) : \A k \in 1 .. Len(trace) :
           (/\ j < k
            /\ WritesField(trace[j], id, name)
            /\ ReadsField(trace[k], id, name)
            /\ \A x \in j + 1 .. k - 1 : ~WritesField(trace[x], id, name))
             => /\ Completed(k)
                /\ StackAfter(k) = Append(Front(trace[k].pre_stack),
                                          Operand(trace[j], 0))
    /\ \A j \in 1 .. Len(trace) :
         (trace[j].ins.op = "SET_FIELD" /\ Completed(j))
           => StackAfter(j) = Append(Drop(trace[j].pre_stack, 2), Operand(trace[j], 0))
    /\ (program = Scenario3 /\ status \notin {"ready", "running"})
         => (status = "ok" /\ retval = ValueInt(5))
\* C14, reached: x of object 1 was written, then y of object 1 and x of another
\* object, and x of object 1 has been read back through another reference.
C14_Witness ==
    \E j \in 1 .. Len(trace) : \E k \in 1 .. Len(trace) :
      /\ j < k
      /\ k < Len(trace)
      /\ WritesField(trace[j], 1, "x")
      /\ Operand(trace[j], 0) = ValueInt(6)
      /\ \/ WritesField(trace[k], 1, "y")
         \/ WritesField(trace[k], 2, "x")
      /\ Operand(trace[k], 0) = ValueInt(5)
      /\ ReadsField(Last(trace), 1, "x")
      /\ status = "ok"
      /\ retval = ValueInt(6)

\* The entry is SET_ELEMENT at Integer index i through a reference to array id
WritesElement(entry, id, i) ==
    /\ entry.ins.op = "SET_ELEMENT"
    /\ Len(entry.pre_stack) >= 3
    /\ IsRef(Operand(entry, 2), "Array", id)
    /\ IsRef(Operand(entry, 1), "Int", i)
\* The entry is GET_ELEMENT at Integer index i through a reference to array id
ReadsElement(entry, id, i) ==
    /\ entry.ins.op = "GET_ELEMENT"
    /\ Len(entry.pre_stack) >= 2
    /\ IsRef(Operand(entry, 1), "Array", id)
    /\ IsRef(Operand(entry, 0), "Int", i)
ArrayIds == 1 .. next_array_id
\* The indexes of the longest array a program of the families allocates
Indexes == 0 .. MaxArray
\* C15: after SET_ELEMENT has stored v at in-range index i through a reference
\* to array id, GET_ELEMENT at i through any reference with that id pushes v,
\* until the next SET_ELEMENT at i; SET_ELEMENT leaves v on top of the stack;
\* and scenario 4 returns Integer 42.
C15_ArrayWriteThenRead ==
    /\ \A id \in ArrayIds : \A i \in Indexes :
         \A j \in 1 .. Len(trace) : \A k \in 1 .. Len(trace) :
           (/\ j < k
            /\ WritesElement(trace[j], id, i)
            /\ ReadsElement(trace[k], id, i)
            /\ \A x \in j + 1 .. k - 1 : ~WritesElement(trace[x], id, i))
             => /\ Completed(k)
                /\ StackAfter(k) = Append(Drop(trace[k].pre_stack, 2),
                                          Operand(trace[j], 0))
    /\ \A j \in 1 .. Len(trace) :
         (trace[j].ins.op = "SET_ELEMENT" /\ Completed(j))
           => StackAfter(j) = Append(Drop(trace[j].pre_stack, 3), Operand(trace[j], 0))
    /\ (program = Scenario4 /\ status \notin {"ready", "running"})
         => (status = "ok" /\ retval = ValueInt(42))
\* C15, reached: index 0 of array 1 was written, then index 1, and index 0 has
\* been read back through another reference.
C15_Witness ==
    \E j \in 1 .. Len(trace) : \E k \in 1 .. Len(trace) :
      /\ j < k
      /\ k < Len(trace)
      /\ WritesElement(trace[j], 1, 0)
      /\ Operand(trace[j], 0) = ValueInt(7)
      /\ WritesElement(trace[k], 1, 1)
      /\ Operand(trace[k], 0) = ValueInt(42)
      /\ ReadsElement(Last(trace), 1, 0)
      /\ status = "ok"
      /\ retval = ValueInt(7)

\* The array operands of the last step name no element: the reference is no
\* array reference or has no heap entry, or the index is no Integer or lies
\* outside the array.
NoSuchElement(array_value, index_value) ==
    \/ array_value.t # "Array"
    \/ array_value.v \notin DOMAIN ev.pre.arrays
    \/ index_value.t # "Int"
    \/ index_value.v < 0
    \/ index_value.v >= Len(ev.pre.arrays[array_value.v].elements)
FailedWithRuntime ==
    /\ ev.r.k = "Err"
    /\ ev.r.err.kind = "Runtime"
    /\ status = "err"
    /\ error.kind = "Runtime"
\* C16: GET_ELEMENT and SET_ELEMENT fail with Runtime when the index is
\* negative or not below the array's length, when it is no Integer, and when
\* the reference is no live array; a failing SET_ELEMENT leaves every heap
\* array unchanged.
C16_ElementAccessFailures ==
    /\ (/\ Executed({"GET_ELEMENT"})
        /\ Len(ev.pre.stack) >= 2
        /\ NoSuchElement(ev.pre.stack[Len(ev.pre.stack) - 1], Last(ev.pre.stack)))
         => FailedWithRuntime
    /\ (/\ Executed({"SET_ELEMENT"})
        /\ Len(ev.pre.stack) >= 3
        /\ NoSuchElement(ev.pre.stack[Len(ev.pre.stack) - 2],
                         ev.pre.stack[Len(ev.pre.stack) - 1]))
         => FailedWithRuntime
    /\ (Executed({"SET_ELEMENT"}) /\ ev.r.k # "Ok") => arrays = ev.pre.arrays
\* C16, reached: a SET_ELEMENT at the index equal to the length of a live
\* array, which holds a written element, has failed.
C16_Witness ==
    /\ Executed({"SET_ELEMENT"})
    /\ Len(ev.pre.stack) = 3
    /\ ev.pre.stack[1] = ValueArray(1)
    /\ ev.pre.stack[2] = ValueInt(MaxArray)
    /\ 1 \in DOMAIN arrays
    /\ Len(arrays[1].elements) = MaxArray
    /\ MaxArray > 0
    /\ arrays[1].elements[1] = ValueInt(42)
    /\ FailedWithRuntime

\* The reference is no object reference, or it is dangling
NoSuchObject(object_value) ==
    \/ object_value.t # "Object"
    \/ object_value.v \notin DOMAIN ev.pre.objects
\* C17: GET_FIELD(name) fails with Runtime on an object without a field of
\* that name, on a dangling object reference and on a value that is no object
\* reference; SET_FIELD on a dangling reference or on a value that is no
\* object reference fails with Runtime and creates no heap entry.
C17_FieldAccessFailures ==
    /\ (/\ Executed({"GET_FIELD"})
        /\ Len(ev.pre.stack) >= 1
        /\ \/ NoSuchObject(Last(ev.pre.stack))
           \/ ev.ins.name \notin DOMAIN ev.pre.objects[Last(ev.pre.stack).v].fields)
         => FailedWithRuntime
    /\ (/\ Executed({"SET_FIELD"})
        /\ Len(ev.pre.stack) >= 2
        /\ NoSuchObject(ev.pre.stack[Len(ev.pre.stack) - 1]))
         => /\ FailedWithRuntime
            /\ objects = ev.pre.objects
            /\ arrays = ev.pre.arrays
            /\ next_object_id = ev.pre.next_object_id
\* C17, reached: a GET_FIELD of a field that a live object with another field
\* does not have has failed.
C17_Witness ==
    /\ Executed({"GET_FIELD"})
    /\ ev.ins.name = "y"
    /\ ev.pre.stack # << >>
    /\ Last(ev.pre.stack) = ValueObject(1)
    /\ 1 \in DOMAIN objects
    /\ DOMAIN objects[1].fields = {"x"}
    /\ FailedWithRuntime

\* The entry is GET_LENGTH through the reference val
ReadsLength(entry, val) ==
    /\ entry.ins.op = "GET_LENGTH"
    /\ Len(entry.pre_stack) >= 1
    /\ Operand(entry, 0) = val
\* C18: NEW_ARRAY(size) allocates an array of size elements that are all Null,
\* and GET_LENGTH through any reference to that array pushes Integer size,
\* whatever SET_ELEMENT instructions were executed since.
C18_ArrayLengthIsFixed ==
    /\ Executed({"NEW_ARRAY"})
         => /\ ev.r.k = "Ok"
            /\ ev.r.value.t = "Array"
            /\ ev.r.value.v \notin DOMAIN ev.pre.arrays
            /\ ev.r.value.v \in DOMAIN arrays
            /\ Len(arrays[ev.r.value.v].elements) = ev.ins.size
            /\ \A i \in 1 .. ev.ins.size : arrays[ev.r.value.v].elements[i] = ValueNull
    /\ \A j \in 1 .. Len(trace) : \A k \in 1 .. Len(trace) :
         (/\ j < k
          /\ trace[j].ins.op = "NEW_ARRAY"
          /\ ReadsLength(trace[k], Last(StackAfter(j))))
           => /\ Completed(k)
              /\ StackAfter(k) = Append(Front(trace[k].pre_stack),
                                        ValueInt(trace[j].ins.size))
\* C18, reached: the length of an array of MaxArray elements has been read
\* after a SET_ELEMENT on it.
C18_Witness ==
    \E j \in 1 .. Len(trace) :
      /\ WritesElement(trace[j], 1, 0)
      /\ j < Len(trace)
      /\ ReadsLength(Last(trace), ValueArray(1))
      /\ trace[1].ins = NEW_ARRAY(MaxArray)
      /\ MaxArray > 0
      /\ status = "ok"
      /\ retval = ValueInt(MaxArray)

\* The IDs 1, 2, ... in the order of allocation
Consecutive(ids) == \A k \in 1 .. Len(ids) : ids[k] = k
\* id, just returned as the last of ids, is above every ID returned before it
\* and had no entry in the store
FreshId(id, ids, store) ==
    /\ id \notin DOMAIN store
    /\ \A k \in 1 .. Len(ids) - 1 : ids[k] < id
\* C19: in each store the k-th allocation returns ID k, every allocation
\* returns an ID above all the IDs returned before, and the ID of a released
\* entry is never returned again, whatever retain, release and update calls
\* come in between.
C19_IdsMonotonicNeverReused ==
    /\ Consecutive(ledger.objects)
    /\ Consecutive(ledger.arrays)
    /\ ev.act = "allocate_object"
         => \A id \in ev.r : /\ FreshId(id, ledger.objects, ev.pre.objects)
                             /\ id \in DOMAIN objects
    /\ ev.act = "allocate_array"
         => \A id \in ev.r : /\ FreshId(id, ledger.arrays, ev.pre.arrays)
                             /\ id \in DOMAIN arrays
\* C19, reached: object 1 was retained and released to zero, and the next
\* allocate_object has returned 2.
C19_Witness ==
    /\ ev.act = "allocate_object"
    /\ ev.r = {2}
    /\ 1 \notin DOMAIN ev.pre.objects
    /\ ledger.object_retentions[1] = 0
    /\ ledger.calls >= 5

\* The stored counts of a store are its entries' retentions, and an allocated
\* ID has an entry exactly while it has a retention
CountsRetentions(store, retentions) ==
    \A id \in DOMAIN retentions :
      /\ id \in DOMAIN store <=> retentions[id] > 0
      /\ id \in DOMAIN store => store[id].ref_count = retentions[id]
\* C20: the reference count of every heap entry is the number of its
\* retentions (1 from its allocation, plus the retains, minus the releases);
\* get returns the entry as long as that number is positive, and the entry is
\* removed exactly when a release takes the number to zero.
C20_RefCountIsRetentions ==
    /\ CountsRetentions(objects, ledger.object_retentions)
    /\ CountsRetentions(arrays, ledger.array_retentions)
    /\ (/\ ev.act = "get_object"
        /\ ev.arg.v \in DOMAIN ledger.object_retentions
        /\ ledger.object_retentions[ev.arg.v] > 0) => ev.r # {}
    /\ (/\ ev.act = "get_array"
        /\ ev.arg.v \in DOMAIN ledger.array_retentions
        /\ ledger.array_retentions[ev.arg.v] > 0) => ev.r # {}

\* update left the store as it was but for the entry under id, which is entry
Replaced(before, after, id, entry) ==
    /\ DOMAIN after = DOMAIN before
    /\ after[id] = entry
    /\ \A other \in DOMAIN before : other # id => after[other] = before[other]
\* C21: update_object and update_array replace the stored entry with the
\* snapshot when the snapshot's ID has an entry, and fail with Runtime and
\* leave the store unchanged when it has none; an update creates no entry, so
\* an entry that a release removed is not brought back by an old snapshot.
C21_UpdateReplacesOrFails ==
    /\ ev.act = "update_object"
         => /\ arrays = ev.pre.arrays
            /\ IF ev.arg.id \in DOMAIN ev.pre.objects
               THEN /\ ev.r = Ok(ValueNull)
                    /\ Replaced(ev.pre.objects, objects, ev.arg.id, ev.arg)
               ELSE /\ ev.r = Err(VmError("Runtime"))
                    /\ objects = ev.pre.objects
    /\ ev.act = "update_array"
         => /\ objects = ev.pre.objects
            /\ IF ev.arg.id \in DOMAIN ev.pre.arrays
               THEN /\ ev.r = Ok(ValueNull)
                    /\ Replaced(ev.pre.arrays, arrays, ev.arg.id, ev.arg)
               ELSE /\ ev.r = Err(VmError("Runtime"))
                    /\ arrays = ev.pre.arrays
    /\ \A id \in DOMAIN ledger.object_retentions :
         (id \notin DOMAIN ev.pre.objects /\ ev.act \in {"update_object", "update_array"})
           => id \notin DOMAIN objects
\* C21, reached: a client got object 1, a release removed it, and the client's
\* update_object with the snapshot, a field inserted, has failed.
C21_Witness ==
    /\ ev.act = "update_object"
    /\ ev.arg.id = 1
    /\ "x" \in DOMAIN ev.arg.fields
    /\ 1 \in DOMAIN ledger.object_retentions
    /\ 1 \notin DOMAIN ev.pre.objects
    /\ ev.r = Err(VmError("Runtime"))
    /\ 1 \notin DOMAIN objects

\* C22: under every interleaving of get_object / get_array with update,
\* retain and release calls of several threads, a snapshot that get returns
\* is a complete entry as one completed write left it, never a mixture of the
\* entries of two writes.
C22_SnapshotsDoNotTear ==
    /\ ev.act = "get_object" => ev.r \subseteq writes["Object"]
    /\ ev.act = "get_array" => ev.r \subseteq writes["Array"]
\* C22, reached: client a's get_object has returned object 1 with the field
\* that client b's update stored and the count that a retain left, while
\* client b is inside another get_object.
C22_Witness ==
    /\ ev.act = "get_object"
    /\ ev.client = "a"
    /\ \E entry \in ev.r : "y" \in DOMAIN entry.fields /\ entry.ref_count = 2
    /\ threads["b"].pc = "get"

\* C23: LOAD_VAR(name) pushes the value bound to name in the locals when
\* there is one, otherwise the value bound in the globals, and fails with
\* UndefinedVariable when neither map binds the name: a local shadows a
\* global of the same name.
C23_LoadVarLocalsThenGlobals ==
    Executed({"LOAD_VAR"})
      => LET name == ev.ins.name
         IN  CASE name \in DOMAIN ev.pre.locals ->
                    /\ ev.r = Ok(ev.pre.locals[name])
                    /\ stack = Append(ev.pre.stack, ev.pre.locals[name])
               [] name \notin DOMAIN ev.pre.locals /\ name \in DOMAIN ev.pre.globals ->
                    /\ ev.r = Ok(ev.pre.globals[name])
                    /\ stack = Append(ev.pre.stack, ev.pre.globals[name])
               [] OTHER ->
                    /\ ev.r = Err(VmErrorNamed("UndefinedVariable", name))
                    /\ status = "err"
                    /\ error.kind = "UndefinedVariable"
                    /\ stack = ev.pre.stack
\* C23, reached: x is bound to 1 in the locals and to 20 in the globals, and
\* LOAD_VAR(x) has pushed 1.
C23_Witness ==
    /\ Executed({"LOAD_VAR"})
    /\ ev.ins.name = "x"
    /\ "x" \in DOMAIN ev.pre.locals
    /\ "x" \in DOMAIN ev.pre.globals
    /\ ev.pre.globals["x"] = ValueInt(20)
    /\ stack = <<ValueInt(1)>>

DeltaOps ==
    {"PUSH", "LOAD_CONST", "LOAD_VAR", "POP", "DUP", "SWAP"}
      \cup ArithOps \cup CompareOps \cup LogicalOps
StackDelta(opname) ==
    CASE opname \in {"PUSH", "LOAD_CONST", "LOAD_VAR", "DUP"} -> 1
      [] opname = "POP" -> -1
      [] opname \in ArithOps \cup CompareOps \cup LogicalOps -> -1
      [] opname = "SWAP" -> 0
\* The sum of the deltas of the first n instructions executed
RECURSIVE SumOfDeltas(_)
SumOfDeltas(n) ==
    IF n = 0 THEN 0 ELSE SumOfDeltas(n - 1) + StackDelta(trace[n].ins.op)
\* C25: for an instruction sequence that executes successfully, the net change
\* of the depth of the operand stack is the sum of the deltas of its
\* instructions: PUSH, LOAD_CONST, LOAD_VAR and DUP +1, POP -1, a binary
\* arithmetic, comparison or logical instruction -1, SWAP 0.
C25_StackDepthIsSumOfDeltas ==
    /\ \A j \in 1 .. Len(trace) :
         (trace[j].ins.op \in DeltaOps /\ Completed(j))
           => Len(StackAfter(j)) = Len(trace[j].pre_stack) + StackDelta(trace[j].ins.op)
    /\ (/\ status \in {"running", "ok"}
        /\ \A j \in 1 .. Len(trace) : trace[j].ins.op \in DeltaOps)
         => Len(stack) = SumOfDeltas(Len(trace))
\* C25, reached: a body of at least three instructions with a copy and a
\* logical instruction has run to its end and left one value.
C25_Witness ==
    /\ status = "ok"
    /\ Len(trace) >= 3
    /\ \A j \in 1 .. Len(trace) : trace[j].ins.op \in DeltaOps
    /\ \E j \in 1 .. Len(trace) : trace[j].ins.op = "DUP"
    /\ \E j \in 1 .. Len(trace) : trace[j].ins.op \in LogicalOps
    /\ stack = <<ValueBool(TRUE)>>
    /\ SumOfDeltas(Len(trace)) = 1

\* C26: RETURN is bounded by the frame base: a RETURN executed in a callee
\* removes no value of the operand stack that lies below the stack base
\* recorded in the callee's frame, so the caller's part of the stack is as it
\* was at the CALL.
C26_ReturnBoundedByFrameBase ==
    (Executed({"RETURN"}) /\ Len(call_stack) >= 2)
      => LET base == Last(call_stack).stack_base
         IN  /\ Len(stack) >= base
             /\ SubSeq(stack, 1, base) = SubSeq(ev.pre.stack, 1, base)

\* Every ID a store has handed out has its entry
AllPresent(store, next_id) == \A id \in 1 .. next_id - 1 : id \in DOMAIN store
\* The last step returned a failure, which is the host's: the run has ended
\* with that failure, no loop is left running, the instruction that failed is
\* the last one executed, and every heap entry allocated so far is present
FailureReachedHost ==
    /\ status = "err"
    /\ error = ev.r.err
    /\ ctl = << >>
    /\ ev.act \in {"instruction", "call"}
         => /\ Last(trace).ins = ev.ins
            /\ Last(trace).fn = ev.fn
            /\ Last(trace).idx = ev.idx
    /\ AllPresent(objects, next_object_id)
    /\ AllPresent(arrays, next_array_id)
    /\ \A id \in DOMAIN ev.pre.objects : id \in DOMAIN objects
    /\ \A id \in DOMAIN ev.pre.arrays : id \in DOMAIN arrays
\* C27: a failure unwinds the dispatch loop at once: after an instruction has
\* failed, in the entry function or in a nested callee, no further instruction
\* of that function or of a pending caller is executed, the failure is
\* returned to the host with its kind, and every heap entry allocated before
\* it is still present.
C27_FailureUnwindsImmediately ==
    /\ [](ev.r.k = "Err" => FailureReachedHost)
    /\ [][ev.r.k # "Err" /\ status # "err"]_vars
\* C27, reached: an instruction of the callee f has failed after main
\* allocated an object, with instructions of main still to come after the
\* CALL.
C27_Witness ==
    /\ status = "err"
    /\ ev.act = "instruction"
    /\ ev.fn = "f"
    /\ ev.r = Err(VmError("StackUnderflow"))
    /\ Len(call_stack) = 2
    /\ 1 \in DOMAIN objects
    /\ \E j \in 1 .. Len(trace) :
         /\ trace[j].ins = CALL("f")
         /\ trace[j].fn = "main"
         /\ trace[j].idx + 1 < Len(Body("main"))

\* C28: every failure is a kind of the error taxonomy: an instruction, on any
\* Integer operands (the sums, differences and products beyond the Integer
\* range, the least Integer divided by -1 or negated), pushes a result or
\* returns a VmError; the engine is never aborted.
C28_FailuresAreVmErrors ==
    /\ status # "panic"
    /\ ev.act = "instruction"
         => \/ ev.r.k = "Ok"
            \/ ev.r.k = "Err" /\ ev.r.err.kind \in VmErrorKinds

\* C29: IS_NULL, executed with a value on the stack, succeeds and leaves
\* Boolean true on top of the stack when that value is Null and Boolean false
\* otherwise.
C29_IsNullPushesBoolean ==
    (Executed({"IS_NULL"}) /\ ev.pre.stack # << >>)
      => /\ ev.r.k = "Ok"
         /\ stack # << >>
         /\ Last(stack) = ValueBool(Last(ev.pre.stack) = ValueNull)

\* The reserved instructions that have no definition
ReservedOps == {"CAST", "ALLOC", "FREE", "GET_METHOD", "IS_TYPE"}
\* C30: each reserved instruction without a definition fails with
\* InvalidInstruction(offset), the offset being the index of the instruction
\* in the body that is executed, also after nested CALLs have returned, and
\* leaves the operand stack, the locals and the heap unchanged.
C30_ReservedInstructionsFail ==
    Executed(ReservedOps)
      => /\ ev.r.k = "Err"
         /\ ev.r.err.kind = "InvalidInstruction"
         /\ ev.r.err.off = ev.idx
         /\ Body(ev.fn)[ev.idx + 1] = ev.ins
         /\ status = "err"
         /\ error = ev.r.err
         /\ stack = ev.pre.stack
         /\ locals = ev.pre.locals
         /\ objects = ev.pre.objects
         /\ arrays = ev.pre.arrays
         /\ next_object_id = ev.pre.next_object_id
         /\ next_array_id = ev.pre.next_array_id
\* C30, reached: a reserved instruction at index 3 of main has failed with
\* offset 3 after two CALLs returned, with the allocated object on the stack.
C30_Witness ==
    /\ Executed(ReservedOps)
    /\ ev.fn = "main"
    /\ ev.idx = 3
    /\ invocations = 3
    /\ error.kind = "InvalidInstruction"
    /\ error.off = 3
    /\ stack = <<ValueObject(1)>>
    /\ 1 \in DOMAIN objects

\* C31: JMP(n), and a taken JMP_IF(n) or JMP_IF_FALSE(n), with n greater than
\* the index of the last instruction of the body that is executed, make the
\* execution fail with InvalidInstruction.
C31_JumpOutOfRangeFails ==
    (/\ Executed({"JMP", "JMP_IF", "JMP_IF_FALSE"})
     /\ ev.ins.offset > Len(Body(ev.fn)) - 1
     /\ \/ ev.ins.op = "JMP"
        \/ ev.pre.stack # << >> /\ Taken([ins |-> ev.ins, pre_stack |-> ev.pre.stack]))
      => /\ ev.r.k = "Err"
         /\ ev.r.err.kind = "InvalidInstruction"
         /\ status = "err"

\* C33: when a CALL has completed successfully, the value the callee returned
\* is on top of the caller's operand stack; CALL f; RETURN with
\* f = PUSH 5; RETURN returns 5.
C33_CallLeavesReturnValueOnStack ==
    /\ (ev.act = "return" /\ status = "running" /\ ev.returned # {})
         => (stack # << >> /\ Last(stack) \in ev.returned)
    /\ (/\ "f" \in DOMAIN program.functions
        /\ Body("f") = <<PUSH(ValueInt(5)), Op("RETURN")>>
        /\ status \notin {"ready", "running"})
         => /\ Body("main") = <<CALL("f"), Op("RETURN")>>
                 => (status = "ok" /\ retval = ValueInt(5))
            /\ Body("main") = <<CALL("f"), STORE_VAR("x")>>
                 => (status = "ok" /\ "x" \in DOMAIN locals /\ locals["x"] = ValueInt(5))

\* C34: DIV and MOD whose right operand is a non-zero Integer or a non-zero
\* Float, of magnitude below 1 included, do not fail with DivisionByZero.
C34_DivisionByZeroOnlyForZero ==
    (/\ Executed({"DIV", "MOD"})
     /\ Len(ev.pre.stack) >= 2
     /\ IsNumber(Last(ev.pre.stack))
     /\ Last(ev.pre.stack).v # 0)
      => ~(ev.r.k = "Err" /\ ev.r.err.kind = "DivisionByZero")

\* C37: an instruction that fails with StackUnderflow, TypeError,
\* DivisionByZero or Runtime leaves the operand stack as it found it.
C37_FailureLeavesStack ==
    (/\ ev.act = "instruction"
     /\ ev.r.k = "Err"
     /\ ev.r.err.kind \in {"StackUnderflow", "TypeError", "DivisionByZero", "Runtime"})
      => stack = ev.pre.stack

\* The entries of store other than id, and of entry id everything but part,
\* are as the last step found them in before.
OnlyChanged(store, before, id, part) ==
    /\ DOMAIN store = DOMAIN before
    /\ \A other \in DOMAIN store \ {id} : store[other] = before[other]
    /\ \A field \in DOMAIN store[id] \ {part} : store[id][field] = before[id][field]
\* C36: a successful SET_FIELD(name) on object id changes only that field of
\* that object, and a successful SET_ELEMENT at index i on array id only that
\* element of that array: every other field, element and heap entry, every
\* reference count and both ID counters are unchanged.
C36_SetChangesOnlyItsTarget ==
    /\ (Executed({"SET_FIELD"}) /\ ev.r.k = "Ok")
         => LET id == Operand([pre_stack |-> ev.pre.stack], 1).v
                name == ev.ins.name
            IN  /\ OnlyChanged(objects, ev.pre.objects, id, "fields")
                /\ DOMAIN objects[id].fields =
                     DOMAIN ev.pre.objects[id].fields \cup {name}
                /\ \A other \in DOMAIN objects[id].fields \ {name} :
                     objects[id].fields[other] = ev.pre.objects[id].fields[other]
                /\ arrays = ev.pre.arrays
                /\ next_object_id = ev.pre.next_object_id
                /\ next_array_id = ev.pre.next_array_id
    /\ (Executed({"SET_ELEMENT"}) /\ ev.r.k = "Ok")
         => LET id == Operand([pre_stack |-> ev.pre.stack], 2).v
                i == Operand([pre_stack |-> ev.pre.stack], 1).v
            IN  /\ OnlyChanged(arrays, ev.pre.arrays, id, "elements")
                /\ Len(arrays[id].elements) = Len(ev.pre.arrays[id].elements)
                /\ \A other \in DOMAIN arrays[id].elements \ {i + 1} :
                     arrays[id].elements[other] = ev.pre.arrays[id].elements[other]
                /\ objects = ev.pre.objects
                /\ next_object_id = ev.pre.next_object_id
                /\ next_array_id = ev.pre.next_array_id
\* C36, reached: y of object 1 has been written while the object held x and a
\* second object existed; or index 1 of array 1 has been written while index 0
\* held a value and a second array existed.
C36_Witness ==
    \/ /\ Executed({"SET_FIELD"})
       /\ ev.r.k = "Ok"
       /\ ev.ins.name = "y"
       /\ DOMAIN ev.pre.objects = {1, 2}
       /\ DOMAIN ev.pre.objects[1].fields = {"x"}
       /\ DOMAIN objects[1].fields = {"x", "y"}
       /\ objects[1].fields["y"] # objects[1].fields["x"]
    \/ /\ Executed({"SET_ELEMENT"})
       /\ ev.r.k = "Ok"
       /\ DOMAIN ev.pre.arrays = {1, 2}
       /\ ev.pre.arrays[1].elements[1] # ValueNull
       /\ arrays[1].elements[2] # ValueNull
       /\ arrays[1].elements[2] # arrays[1].elements[1]

\* C35: when no call is in progress, the stored entry of an object holds
\* every field that an update_object which completed has stored in it, and
\* its reference count is one more than the increment_ref less the
\* decrement_ref that completed on it.
C35_NoLostUpdate ==
    Exclusive
      => \A id \in DOMAIN objects :
           /\ \A written \in writes["Object"] :
                written.id = id
                  => DOMAIN written.fields \subseteq DOMAIN objects[id].fields
           /\ objects[id].ref_count = ledger.object_retentions[id]

\* C39: after any sequence of allocate_object, allocate_array, retain, release
\* and update on one memory manager, total_allocations less
\* total_deallocations of get_stats is the number of objects plus the number
\* of arrays in the two stores.
C39_StatsCountLiveEntries ==
    get_stats(profiler).total_allocations - get_stats(profiler).total_deallocations
      = Cardinality(DOMAIN objects) + Cardinality(DOMAIN arrays)
\* C39, reached: three entries were allocated and a release has just removed
\* an object; an object and an array are left.
C39_Witness ==
    /\ get_stats(profiler).total_allocations = 3
    /\ get_stats(profiler).total_deallocations = 1
    /\ Cardinality(DOMAIN objects) = 1
    /\ Cardinality(DOMAIN arrays) = 1
    /\ ev.act = "decrement_ref"
    /\ ev.pre.objects # objects

\* C32: loading yields what the binary decoding returns when it succeeds and
\* otherwise what the textual decoding returns when that succeeds; a file
\* that cannot be opened or read fails with Io, and a file that is read and
\* decodes neither way fails with InvalidBytecode, whether or not its bytes
\* are valid UTF-8.
C32_LoadBytecode ==
    ev.act = "execute_file"
      => \A f \in file :
           /\ (~f.opens \/ ~f.reads) => (status = "err" /\ error.kind = "Io")
           /\ (f.reads /\ f.bincode # {})
                => (status = "ready" /\ program \in f.bincode)
           /\ (f.reads /\ f.bincode = {} /\ f.json # {})
                => (status = "ready" /\ program \in f.json)
           /\ (f.reads /\ f.bincode = {} /\ f.json = {})
                => (status = "err" /\ error.kind = "InvalidBytecode")

\* The functions that the body of name calls
CalledBy(name) ==
    {Body(name)[k].name :
       k \in {x \in 1 .. Len(Body(name)) : Body(name)[x].op = "CALL"}}
      \cap DOMAIN program.functions
\* names and the functions called from them through at most n further calls
RECURSIVE CalledWithin(_, _)
CalledWithin(names, n) ==
    IF n = 0 THEN names
    ELSE CalledWithin(names \cup UNION {CalledBy(name) : name \in names}, n - 1)
\* No function of the program calls itself, directly or through other functions
NonRecursive ==
    \A name \in DOMAIN program.functions :
      name \notin CalledWithin(CalledBy(name), Cardinality(DOMAIN program.functions))
\* C38: for a program whose functions do not call themselves directly or
\* transitively, whatever jumps its bodies contain, execute_program
\* eventually returns success or a failure.
C38_NonRecursiveProgramsTerminate ==
    NonRecursive => <>(status \in {"ok", "err"})

=============================================================================
